---- MODULE Spec2Model ----
(***************************************************************************)
(* A model of angr's fast data dependence graph (angr/analyses/ddg.py):    *)
(* the statement and data graph builders, the simplifier that splices     *)
(* temporaries out of the data graph, the per-node tracker and the        *)
(* worklist scheduler of DDG._construct.                                   *)
(***************************************************************************)
EXTENDS Integers, Sequences, FiniteSets, TLC

(***************************************************************************)
(* Values.  A SimVariable is a record (kind, id, size); a CodeLocation is  *)
(* (bbl, stmt); a ProgramVariable pairs the two.  Equality is structural,  *)
(* as ProgramVariable.__eq__ makes it.                                     *)
(***************************************************************************)
RegVar(offset, size) == [kind |-> "reg", id |-> offset, size |-> size]

MemVar(addr, size) == [kind |-> "mem", id |-> addr, size |-> size]

TmpVar(tmp) == [kind |-> "tmp", id |-> tmp, size |-> 0]

ConstVar == [kind |-> "const", id |-> 0, size |-> 0]

CodeLocation(bbl, stmt) == [bbl |-> bbl, stmt |-> stmt]

ProgramVariable(variable, location) == [variable |-> variable, location |-> location]

IsTemporary(n) == n.variable.kind = "tmp"

(***************************************************************************)
(* Label dictionaries (the **edge_labels of networkx) are functions from   *)
(* keys to values.                                                         *)
(***************************************************************************)
NoLabels == [k \in {} |-> ""]

TypeLabel(t) == [k \in {"type"} |-> t]

\* dict.update: the keys of b win
Update(a, b) == [k \in (DOMAIN a) \cup (DOMAIN b) |-> IF k \in DOMAIN b THEN b[k] ELSE a[k]]

(***************************************************************************)
(* networkx.DiGraph: a node set and one label dictionary per (src, dst).   *)
(***************************************************************************)
EmptyGraph == [nodes |-> {}, edges |-> [e \in {} |-> NoLabels]]

HasEdge(g, src, dst) == <<src, dst>> \in DOMAIN g.edges

GraphAddNode(g, n) == [g EXCEPT !.nodes = @ \cup {n}]

\* DiGraph.add_edge: creates the end points; on an existing edge it updates the labels
GraphAddEdge(g, src, dst, labels) ==
    [nodes |-> g.nodes \cup {src, dst},
     edges |-> [e \in (DOMAIN g.edges) \cup {<<src, dst>>} |->
                  IF e = <<src, dst>>
                  THEN (IF e \in DOMAIN g.edges THEN Update(g.edges[e], labels) ELSE labels)
                  ELSE g.edges[e]]]

GraphRemoveEdges(g, es) == [g EXCEPT !.edges = [e \in (DOMAIN g.edges) \ es |-> g.edges[e]]]

\* Mutant: the node is left in the graph
GraphRemoveNode_Kept(g, n) == g

GraphRemoveNode(g, n) ==
    [nodes |-> g.nodes \ {n},
     edges |-> [e \in {x \in DOMAIN g.edges : x[1] # n /\ x[2] # n} |-> g.edges[e]]]

(***************************************************************************)
(* DDG._simplify_data_graph.  all_nodes is listed from a dictionary, so    *)
(* its order is an input (a sequence without repetition of the temporary   *)
(* nodes).  A result is [ok, g]: ok is FALSE when networkx raises.         *)
(***************************************************************************)
Orders(S) == {o \in [1..Cardinality(S) -> S] : \A i, j \in 1..Cardinality(S) : o[i] = o[j] => i = j}

TempNodes(g) == {n \in g.nodes : IsTemporary(n)}

InEdges(g, n) == {e \in DOMAIN g.edges : e[2] = n}

OutEdges(g, n) == {e \in DOMAIN g.edges : e[1] = n}

\* Mutant: data_out.copy() updated with data_in, the in-edge's keys win
SpliceLabels_InWins(data_in, data_out) == Update(data_out, data_in)

\* data = data_in.copy(); data.update(data_out)
SpliceLabels(data_in, data_out) == Update(data_in, data_out)

\* Mutant: in-edges that come from another temporary are not linked
SplicePairs_SkipTmpPred(in_edges, out_edges, tmp_node) ==
    {<<x[1][1], x[2][2]>> : x \in
        {y \in in_edges \X out_edges :
            y[1][1] # tmp_node /\ y[2][2] # tmp_node /\ ~IsTemporary(y[1][1])}}

\* The (pred, suc) pairs the double loop links: every in-edge with every out-edge
SplicePairs(in_edges, out_edges, tmp_node) ==
    {<<x[1][1], x[2][2]>> : x \in
        {y \in in_edges \X out_edges : y[1][1] # tmp_node /\ y[2][2] # tmp_node}}

\* One iteration of the loop over all_nodes.  The in- and out-edge lists are taken
\* before any removal, so a self loop of tmp_node is in both and its second
\* remove_edge raises NetworkXError.
SimplifyNode(g, tmp_node) ==
    LET in_edges == InEdges(g, tmp_node)
        out_edges == OutEdges(g, tmp_node)
        removed == GraphRemoveEdges(g, in_edges \cup out_edges)
        pairs == SplicePairs(in_edges, out_edges, tmp_node)
        data(p) == SpliceLabels(g.edges[<<p[1], tmp_node>>], g.edges[<<tmp_node, p[2]>>])
        linked == [nodes |-> removed.nodes,
                   edges |-> [e \in (DOMAIN removed.edges) \cup pairs |->
                                IF e \in pairs
                                THEN (IF e \in DOMAIN removed.edges
                                      THEN Update(removed.edges[e], data(e))
                                      ELSE data(e))
                                ELSE removed.edges[e]]]
    IN  IF <<tmp_node, tmp_node>> \in DOMAIN g.edges
        THEN [ok |-> FALSE, g |-> g]
        ELSE [ok |-> TRUE, g |-> GraphRemoveNode(linked, tmp_node)]

RECURSIVE SimplifyFrom(_, _, _)
SimplifyFrom(g, all_nodes, i) ==
    IF i > Len(all_nodes)
    THEN [ok |-> TRUE, g |-> g]
    ELSE LET r == SimplifyNode(g, all_nodes[i])
         IN  IF r.ok THEN SimplifyFrom(r.g, all_nodes, i + 1) ELSE r

\* graph = networkx.DiGraph(data_graph) is a copy: the argument is not changed
_simplify_data_graph(data_graph, all_nodes) == SimplifyFrom(data_graph, all_nodes, 1)

(***************************************************************************)
(* The state of a DDG object.                                              *)
(***************************************************************************)
VARIABLES
    stmt_graph,             \* self._stmt_graph
    data_graph,             \* self._data_graph
    simplified_data_graph,  \* self._simplified_data_graph: << >> is None, <<g>> a cached graph
    raised,                 \* the exception the last call ended with, "" for none
    budget,                 \* calls that may still be made on the object (bounds the model)
    last_call,              \* history: the method called last, and whether its edge existed
    trace,                  \* the actions of state.log.actions scanned so far by _track
    trk,                    \* the locals of the running _track call
    entering_defs           \* the live_defs argument of that call, still held by the caller

graphVars == <<stmt_graph, data_graph, simplified_data_graph>>

apiVars == <<raised, budget, last_call>>

trackVars == <<trace, trk, entering_defs>>

\* The fields a method reads and writes, as one record
Self == [stmt_graph |-> stmt_graph, data_graph |-> data_graph,
         simplified_data_graph |-> simplified_data_graph]

SetSelf(d) ==
    /\ stmt_graph' = d.stmt_graph
    /\ data_graph' = d.data_graph
    /\ simplified_data_graph' = d.simplified_data_graph

\* DDG.__init__, lines 79-81
NewSelf == [stmt_graph |-> EmptyGraph, data_graph |-> EmptyGraph, simplified_data_graph |-> << >>]

_data_graph_add_node(self, node) ==
    [self EXCEPT !.data_graph = GraphAddNode(@, node),
                 !.simplified_data_graph = << >>]

\* Mutant: the edge is added and the cache is kept
_data_graph_add_edge_NoReset(self, src, dst, edge_labels) ==
    IF src \in self.data_graph.nodes /\ HasEdge(self.data_graph, src, dst)
    THEN self
    ELSE [self EXCEPT !.data_graph = GraphAddEdge(@, src, dst, edge_labels)]

_data_graph_add_edge(self, src, dst, edge_labels) ==
    IF src \in self.data_graph.nodes /\ HasEdge(self.data_graph, src, dst)
    THEN self
    ELSE [self EXCEPT !.data_graph = GraphAddEdge(@, src, dst, edge_labels),
                      !.simplified_data_graph = << >>]

\* Mutant: no early return, add_edge runs on an existing edge and updates its labels
_stmt_graph_add_edge_Always(self, src, dst, edge_labels) ==
    [self EXCEPT !.stmt_graph = GraphAddEdge(@, src, dst, edge_labels)]

_stmt_graph_add_edge(self, src, dst, edge_labels) ==
    IF src \in self.stmt_graph.nodes /\ HasEdge(self.stmt_graph, src, dst)
    THEN self
    ELSE [self EXCEPT !.stmt_graph = GraphAddEdge(@, src, dst, edge_labels)]

\* data[k] = data[k] + (v,) if k in data else (v,), for every k, v of new_labels
AnnotateLabels(data, new_labels) ==
    [k \in (DOMAIN data) \cup (DOMAIN new_labels) |->
        IF k \in DOMAIN new_labels
        THEN (IF k \in DOMAIN data THEN Append(data[k], new_labels[k]) ELSE <<new_labels[k]>>)
        ELSE data[k]]

RECURSIVE AnnotateFrom(_, _, _, _)
AnnotateFrom(graph, edges_to_annotate, new_labels, i) ==
    IF i > Len(edges_to_annotate)
    THEN graph
    ELSE LET src == edges_to_annotate[i][1]
             dst == edges_to_annotate[i][2]
         IN  IF src \notin graph.nodes \/ ~HasEdge(graph, src, dst)
             THEN AnnotateFrom(graph, edges_to_annotate, new_labels, i + 1)
             ELSE AnnotateFrom([graph EXCEPT !.edges[<<src, dst>>] = AnnotateLabels(@, new_labels)],
                               edges_to_annotate, new_labels, i + 1)

_stmt_graph_annotate_edges(self, edges_to_annotate, new_labels) ==
    [self EXCEPT !.stmt_graph = AnnotateFrom(@, edges_to_annotate, new_labels, 1)]

\* Mutant: the simplifier works on the Data graph itself, not on a copy
simplified_data_graph_get_InPlace(self, all_nodes) ==
    IF self.simplified_data_graph = << >>
    THEN LET r == _simplify_data_graph(self.data_graph, all_nodes)
         IN  IF r.ok
             THEN [self |-> [self EXCEPT !.data_graph = r.g, !.simplified_data_graph = <<r.g>>], raised |-> ""]
             ELSE [self |-> self, raised |-> "NetworkXError"]
    ELSE [self |-> self, raised |-> ""]

\* The property simplified_data_graph: [self, raised]
simplified_data_graph_get(self, all_nodes) ==
    IF self.simplified_data_graph = << >>
    THEN LET r == _simplify_data_graph(self.data_graph, all_nodes)
         IN  IF r.ok
             THEN [self |-> [self EXCEPT !.simplified_data_graph = <<r.g>>], raised |-> ""]
             ELSE [self |-> self, raised |-> "NetworkXError"]
    ELSE [self |-> self, raised |-> ""]

(***************************************************************************)
(* SimActions.  One record shape serves the four kinds of action; a field  *)
(* an action kind does not have holds a default.  bbl_addr 0 stands for    *)
(* None (an action of a SimProcedure).  The addresses of a memory action   *)
(* are sequences: the order in which set(a.actual_addrs) is iterated.      *)
(***************************************************************************)
NoAddr == [symbolic |-> FALSE, value |-> 0]

BaseAction(type, action, bbl_addr, stmt_idx) ==
    [type |-> type, action |-> action, bbl_addr |-> bbl_addr, stmt_idx |-> stmt_idx,
     offset |-> 0, size |-> 0, tmp |-> 0, reg_deps |-> {}, tmp_deps |-> {},
     actual_addrs |-> << >>, addr |-> NoAddr,
     addr_reg_deps |-> {}, addr_tmp_deps |-> {}, data_reg_deps |-> {}, data_tmp_deps |-> {}]

RegAction(action, bbl_addr, stmt_idx, offset, size, reg_deps, tmp_deps) ==
    [BaseAction("reg", action, bbl_addr, stmt_idx) EXCEPT
        !.offset = offset, !.size = size, !.reg_deps = reg_deps, !.tmp_deps = tmp_deps]

TmpAction(action, bbl_addr, stmt_idx, tmp, tmp_deps) ==
    [BaseAction("tmp", action, bbl_addr, stmt_idx) EXCEPT !.tmp = tmp, !.tmp_deps = tmp_deps]

ExitAction(bbl_addr, stmt_idx, tmp_deps) ==
    [BaseAction("exit", "read", bbl_addr, stmt_idx) EXCEPT !.tmp_deps = tmp_deps]

\* actual_addrs is << >> for None and <<list>> otherwise
MemAction(action, bbl_addr, stmt_idx, actual_addrs, addr, size, addr_reg_deps, addr_tmp_deps, data_reg_deps, data_tmp_deps) ==
    [BaseAction("mem", action, bbl_addr, stmt_idx) EXCEPT
        !.actual_addrs = actual_addrs, !.addr = addr, !.size = size,
        !.addr_reg_deps = addr_reg_deps, !.addr_tmp_deps = addr_tmp_deps,
        !.data_reg_deps = data_reg_deps, !.data_tmp_deps = data_tmp_deps]

\* line 343: the address that stands for a symbolic one (0x60000000)
SentinelAddr == 1610612736

ActionLocation(a) ==
    IF a.bbl_addr = 0 THEN CodeLocation(0, 0) ELSE CodeLocation(a.bbl_addr, a.stmt_idx)

AddrList(a) ==
    IF a.actual_addrs = << >>
    THEN (IF a.addr.symbolic THEN <<SentinelAddr>> ELSE <<a.addr.value>>)
    ELSE a.actual_addrs[1]

(***************************************************************************)
(* Live definitions: a dictionary from a variable to a set object.  A set  *)
(* object is [id, locs]; two entries with the same id are the same Python  *)
(* set, so an add through one shows through the other.  id 0 is a set just *)
(* made by _kill, held by no dictionary of live_defs_per_node yet.         *)
(***************************************************************************)
NoDefs == [v \in {} |-> [id |-> 0, locs |-> {}]]

Put(f, k, v) == [x \in (DOMAIN f) \cup {k} |-> IF x = k THEN v ELSE f[x]]

Del(f, k) == [x \in (DOMAIN f) \ {k} |-> f[x]]

\* The locations per variable, without the identities
Locs(live_defs) == [v \in DOMAIN live_defs |-> live_defs[v].locs]

_kill_Union(live_defs, variable, code_loc) ==
    Put(live_defs, variable,
        [id |-> 0, locs |-> (IF variable \in DOMAIN live_defs THEN live_defs[variable].locs ELSE {})
                               \cup {code_loc}])

_kill(live_defs, variable, code_loc) == Put(live_defs, variable, [id |-> 0, locs |-> {code_loc}])

\* The labels of a kept variable: the variable itself
DataOfVariable(variable) == variable

\* The label data=a.tmp of a temporary read and data='tmp' of an exit
DataOfTmp(tmp) == [kind |-> "int", id |-> tmp, size |-> 0]

DataOfExit == [kind |-> "str_tmp", id |-> 0, size |-> 0]

\* [ok, defs]: a dictionary code location -> labels.  A set holds a location once,
\* so count is always 0.
_def_lookup(keep_data, live_defs, variable) ==
    IF variable \notin DOMAIN live_defs \/ live_defs[variable].locs = {}
    THEN [ok |-> TRUE, defs |-> [l \in {} |-> NoLabels]]
    ELSE IF variable.kind \notin {"mem", "reg"}
    THEN [ok |-> FALSE, defs |-> [l \in {} |-> NoLabels]]
    ELSE [ok |-> TRUE,
          defs |-> [code_loc \in live_defs[variable].locs |->
                      IF keep_data
                      THEN [type |-> variable.kind, data |-> DataOfVariable(variable)]
                      ELSE [type |-> variable.kind, count |-> 0]]]

(***************************************************************************)
(* DDG._track.  The locals of one call are a record t:                     *)
(*   self, live_defs, temp_defs, temp_variables, temps_to_edges,           *)
(*   regs_to_edges, last_statement_id, data_read, pv, raised.              *)
(* pv is << >> while the local pv is unbound.  raised names the exception  *)
(* that ended the call ("" for none); the scan stops there.                *)
(***************************************************************************)
\* line 556: the size of a register the architecture does not name
RegSize == 1

\* project.arch.register_names: the offsets the architecture names
ArchRegisterNames == {0}

\* [ok, size]: for an offset in register_names line 550 reads the attribute
\* arch.register_name, which the architecture does not have (AttributeError);
\* any other offset gets size 1.
_get_register_size(reg_offset) ==
    IF reg_offset \in ArchRegisterNames
    THEN [ok |-> FALSE, size |-> 0]
    ELSE [ok |-> TRUE, size |-> RegSize]

\* defaultdict(list)
EdgesOf(d, k) == IF k \in DOMAIN d THEN d[k] ELSE << >>

Raise(t, exc) == [t EXCEPT !.raised = exc]

RECURSIVE AddStmtEdges(_, _, _, _)
AddStmtEdges(self, prevdefs, locs, current_code_location) ==
    IF locs = {}
    THEN self
    ELSE LET prev_code_loc == CHOOSE l \in locs : TRUE
         IN  AddStmtEdges(_stmt_graph_add_edge(self, prev_code_loc, current_code_location,
                                               prevdefs[prev_code_loc]),
                          prevdefs, locs \ {prev_code_loc}, current_code_location)

RECURSIVE AddDataEdges(_, _, _, _)
AddDataEdges(self, srcs, dst, labels) ==
    IF srcs = {}
    THEN self
    ELSE LET src == CHOOSE n \in srcs : TRUE
         IN  AddDataEdges(_data_graph_add_edge(self, src, dst, labels), srcs \ {src}, dst, labels)

RECURSIVE EdgeTuples(_, _)
EdgeTuples(locs, current_code_location) ==
    IF locs = {}
    THEN << >>
    ELSE LET prev_code_loc == CHOOSE l \in locs : TRUE
         IN  <<<<prev_code_loc, current_code_location>>>>
                \o EdgeTuples(locs \ {prev_code_loc}, current_code_location)

\* lines 367-373 and 380-386: the register dependencies of a memory action.  The
\* loop "for loc, _ in prev_defs" unpacks the keys of a dictionary, CodeLocations,
\* which are not iterable: it raises TypeError as soon as prev_defs is not empty.
RECURSIVE MemRegDeps(_, _, _, _)
MemRegDeps(t, reg_deps, pv, subtype) ==
    IF reg_deps = {} \/ t.raised # ""
    THEN t
    ELSE LET reg_offset == CHOOSE r \in reg_deps : TRUE
             annotated == [t EXCEPT !.self = _stmt_graph_annotate_edges(
                              @, EdgesOf(t.regs_to_edges, reg_offset), [k \in {"subtype"} |-> subtype])]
             sz == _get_register_size(reg_offset)
             prev_defs == _def_lookup(t.keep_data, t.live_defs, RegVar(reg_offset, sz.size))
         IN  IF ~sz.ok
             THEN Raise(annotated, "AttributeError")
             ELSE IF DOMAIN prev_defs.defs # {}
             THEN Raise(annotated, "TypeError")
             ELSE MemRegDeps(annotated, reg_deps \ {reg_offset}, pv, subtype)

\* Mutant: the temporaries a memory action depends on are not linked to it
MemTmpDeps_Skipped(t, tmp_deps, pv, subtype) == t

\* lines 375-378 and 388-391: the temporary dependencies of a memory action
RECURSIVE MemTmpDeps(_, _, _, _)
MemTmpDeps(t, tmp_deps, pv, subtype) ==
    IF tmp_deps = {} \/ t.raised # ""
    THEN t
    ELSE LET tmp == CHOOSE x \in tmp_deps : TRUE
             annotated == _stmt_graph_annotate_edges(
                              t.self, EdgesOf(t.temps_to_edges, tmp), [k \in {"subtype"} |-> subtype])
             linked == IF tmp \in DOMAIN t.temp_variables
                       THEN _data_graph_add_edge(annotated, t.temp_variables[tmp], pv, TypeLabel(subtype))
                       ELSE annotated
         IN  MemTmpDeps([t EXCEPT !.self = linked], tmp_deps \ {tmp}, pv, subtype)

\* lines 348-391: one address of a memory action
TrackMemAddr(t, a, addr, current_code_location) ==
    LET variable == MemVar(addr, a.size)
        pv == ProgramVariable(variable, current_code_location)
        prevdefs == _def_lookup(t.keep_data, t.live_defs, variable)
        t1 == IF a.action = "read"
              THEN [t EXCEPT !.self = AddStmtEdges(@, prevdefs.defs, DOMAIN prevdefs.defs,
                                                   current_code_location),
                             !.data_read = @ \cup {pv},
                             !.pv = <<pv>>]
              ELSE [t EXCEPT !.pv = <<pv>>]
        t2 == IF a.action = "write"
              THEN [t1 EXCEPT !.live_defs = _kill(@, variable, current_code_location)]
              ELSE t1
        t3 == MemRegDeps(t2, a.addr_reg_deps, pv, "mem_addr")
        t4 == MemTmpDeps(t3, a.addr_tmp_deps, pv, "mem_addr")
        t5 == MemRegDeps(t4, a.data_reg_deps, pv, "mem_data")
    IN  MemTmpDeps(t5, a.data_tmp_deps, pv, "mem_data")

RECURSIVE TrackMem(_, _, _, _, _)
TrackMem(t, a, addr_list, i, current_code_location) ==
    IF i > Len(addr_list) \/ t.raised # ""
    THEN t
    ELSE TrackMem(TrackMemAddr(t, a, addr_list[i], current_code_location),
                  a, addr_list, i + 1, current_code_location)

\* lines 433-435: after a register read or write, link the temporaries it depends
\* on to pv.  A read binds no pv of its own: the pv of an earlier action is used.
RECURSIVE RegTmpDeps(_, _)
RegTmpDeps(t, tmp_deps) ==
    IF tmp_deps = {} \/ t.raised # ""
    THEN t
    ELSE LET tmp == CHOOSE x \in tmp_deps : TRUE
         IN  IF tmp \notin DOMAIN t.temp_variables
             THEN RegTmpDeps(t, tmp_deps \ {tmp})
             ELSE IF t.pv = << >>
             THEN Raise(t, "UnboundLocalError")
             ELSE RegTmpDeps([t EXCEPT !.self = _data_graph_add_edge(
                                  @, t.temp_variables[tmp], t.pv[1], NoLabels)],
                             tmp_deps \ {tmp})

\* lines 393-435
TrackReg(t, a, current_code_location) ==
    LET reg_offset == a.offset
        variable == RegVar(reg_offset, a.size)
        prevdefs == _def_lookup(t.keep_data, t.live_defs, variable).defs
        locs == DOMAIN prevdefs
        pv == ProgramVariable(variable, current_code_location)
        const_pv == ProgramVariable(ConstVar, current_code_location)
        read == [t EXCEPT
                    !.self = AddStmtEdges(@, prevdefs, locs, current_code_location),
                    !.regs_to_edges = IF locs = {} THEN @
                                      ELSE Put(@, reg_offset, EdgesOf(@, reg_offset)
                                                  \o EdgeTuples(locs, current_code_location)),
                    !.data_read = @ \cup {ProgramVariable(variable, l) : l \in locs}
                                    \cup (IF locs = {} THEN {pv} ELSE {})]
        node == _data_graph_add_node(t.self, pv)
        write == [t EXCEPT
                    !.live_defs = _kill(@, variable, current_code_location),
                    !.regs_to_edges = Del(@, reg_offset),
                    !.pv = <<pv>>,
                    !.self = IF a.reg_deps = {} /\ a.tmp_deps = {}
                             THEN _data_graph_add_edge(node, const_pv, pv, NoLabels)
                             ELSE node]
    IN  RegTmpDeps(IF a.action = "read" THEN read ELSE write, a.tmp_deps)

\* lines 437-464
TrackTmp(t, a, current_code_location) ==
    LET tmp == a.tmp
        pv == ProgramVariable(TmpVar(tmp), current_code_location)
        bound == [t EXCEPT !.pv = <<pv>>]
        prev_code_loc == t.temp_defs[tmp]
        written == [bound EXCEPT !.temp_defs = Put(@, tmp, current_code_location),
                                 !.temp_variables = Put(@, tmp, pv),
                                 !.temps_to_edges = Del(@, tmp)]
        deps == {written.temp_variables[d] : d \in a.tmp_deps \cap DOMAIN written.temp_variables}
    IN  IF a.action = "read"
        THEN IF tmp \notin DOMAIN t.temp_defs
             THEN Raise(bound, "KeyError")
             ELSE [bound EXCEPT
                      !.self = _stmt_graph_add_edge(@, prev_code_loc, current_code_location,
                                                    [type |-> "tmp", data |-> DataOfTmp(tmp)]),
                      !.temps_to_edges = Put(@, tmp, Append(EdgesOf(@, tmp),
                                                            <<prev_code_loc, current_code_location>>))]
        ELSE [written EXCEPT
                 !.self = AddDataEdges(AddDataEdges(@, deps, pv, NoLabels), t.data_read, pv, NoLabels)]

\* lines 466-476
RECURSIVE TrackExit(_, _, _)
TrackExit(t, tmp_deps, current_code_location) ==
    IF tmp_deps = {} \/ t.raised # ""
    THEN t
    ELSE LET tmp == CHOOSE x \in tmp_deps : TRUE
         IN  IF tmp \notin DOMAIN t.temp_defs
             THEN Raise(t, "KeyError")
             ELSE TrackExit(
                    [t EXCEPT
                        !.self = _stmt_graph_add_edge(@, t.temp_defs[tmp], current_code_location,
                                                      [type |-> "exit", data |-> DataOfExit]),
                        !.temps_to_edges = Put(@, tmp, Append(EdgesOf(@, tmp),
                                                   <<t.temp_defs[tmp], current_code_location>>))],
                    tmp_deps \ {tmp}, current_code_location)

\* lines 325-476: one action of the list
TrackAction(t, a) ==
    LET current_code_location == ActionLocation(a)
        t0 == IF t.last_statement_id = << >> \/ t.last_statement_id[1] # a.stmt_idx
              THEN [t EXCEPT !.data_read = {}, !.last_statement_id = <<a.stmt_idx>>]
              ELSE t
    IN  CASE a.type = "mem" -> TrackMem(t0, a, AddrList(a), 1, current_code_location)
          [] a.type = "reg" -> TrackReg(t0, a, current_code_location)
          [] a.type = "tmp" -> TrackTmp(t0, a, current_code_location)
          [] a.type = "exit" -> TrackExit(t0, a.tmp_deps, current_code_location)
          [] OTHER -> t0

RECURSIVE TrackFrom(_, _, _)
TrackFrom(t, action_list, i) ==
    IF i > Len(action_list) \/ t.raised # ""
    THEN t
    ELSE TrackFrom(TrackAction(t, action_list[i]), action_list, i + 1)

\* live_defs.copy() is shallow: the copy holds the same set objects
TrackLocals(self, keep_data, live_defs) ==
    [self |-> self, keep_data |-> keep_data, live_defs |-> live_defs,
     temp_defs |-> [x \in {} |-> CodeLocation(0, 0)],
     temp_variables |-> [x \in {} |-> ProgramVariable(ConstVar, CodeLocation(0, 0))],
     temps_to_edges |-> [x \in {} |-> << >>],
     regs_to_edges |-> [x \in {} |-> << >>],
     last_statement_id |-> << >>,
     data_read |-> {},
     pv |-> << >>,
     raised |-> ""]

\* Mutant: _track works on the dictionary it was given
WorksOnCopy_Not == FALSE

\* line 306: live_defs = live_defs.copy(), the local dictionary is a new object that
\* holds the same set objects
WorksOnCopy == TRUE

\* The dictionary the caller passed, as the caller sees it when _track has got to
\* the locals t: its own entries, each set object with the locations it now has
CallerDefs(passed, t) ==
    IF WorksOnCopy
    THEN [v \in DOMAIN passed |->
            IF v \in DOMAIN t.live_defs /\ t.live_defs[v].id = passed[v].id /\ passed[v].id # 0
            THEN t.live_defs[v]
            ELSE passed[v]]
    ELSE t.live_defs

\* The locals at the return: live_defs is the value returned, self the graphs
_track(self, keep_data, action_list, live_defs) ==
    TrackFrom(TrackLocals(self, keep_data, live_defs), action_list, 1)

(***************************************************************************)
(* _construct: the CFG it reads, its worklist and the live definitions it  *)
(* keeps per node.                                                         *)
(***************************************************************************)
VARIABLES
    cfg,                    \* self._cfg.graph: [nodes, edges], an edge labelled [jumpkind]
    _keep_state,            \* cfg._keep_state
    _start,                 \* the start argument: << >> for None, <<addr>> otherwise
    program,                \* which action lists the final states of the CFG carry
    unresolved,             \* node -> the ip of one more final state, not a successor's
    _call_depth,            \* self._call_depth: << >> for None, <<k>> for the integer k
    reverse,                \* whether the dictionaries of the CFG iterate downwards
    pc,                     \* where the constructor stands: "idle", "new", "seed", "loop",
                            \* "states", "done"
    worklist,               \* the list of DDGJob
    worklist_set,           \* the CFG nodes of the jobs in the list
    live_defs_per_node,     \* node -> variable -> set object
    ddg_job,                \* the job popped last
    state_idx,              \* the position of the for loop in final_states
    processed,              \* history: the nodes popped so far
    tracked,                \* history: the nodes a final state of which was given to _track
    propagations,           \* history: the merges done, [src, dst, defs]
    seeded,                 \* history: the nodes _construct made initial jobs of
    last_scheduled,         \* history: node -> the call depth of the latest job made for it
    last_append,            \* history: << >>, or the latest call of _worklist_append:
                            \* its number, its job, whether the node was pending, and
                            \* worklist_set when it returned
    functions,              \* cfg.function_manager.functions, in the order it iterates:
                            \* a sequence of [name, blocks]; << >> until it is first read
    _function_data_dependencies  \* << >> for None, else <<function name -> graph>>

constructVars ==
    <<cfg, _keep_state, _start, program, unresolved, _call_depth, reverse, pc, worklist,
      worklist_set, live_defs_per_node, ddg_job, state_idx, processed, tracked, propagations,
      seeded, last_scheduled, last_append, functions, _function_data_dependencies>>

functionVars == <<functions, _function_data_dependencies>>

DDGJob(cfg_node, call_depth) == [cfg_node |-> cfg_node, call_depth |-> call_depth]

JumpkindLabel(jumpkind) == [jumpkind |-> jumpkind]

\* A final state: its jumpkind and its ip, <<addr>> when concrete
FinalState(jumpkind, ip) == [jumpkind |-> jumpkind, ip |-> ip]

Successors(n) == {d \in cfg.nodes : <<n, d>> \in DOMAIN cfg.edges}

InDegree(n) == Cardinality({s \in cfg.nodes : <<s, n>> \in DOMAIN cfg.edges})

RECURSIVE Ascending(_)
Ascending(S) ==
    IF S = {} THEN << >>
    ELSE LET least == CHOOSE x \in S : \A y \in S : x <= y
         IN  <<least>> \o Ascending(S \ {least})

Reversed(s) == [i \in 1..Len(s) |-> s[Len(s) + 1 - i]]

\* The order a dictionary of CFG nodes iterates in
Iter(S) == IF reverse THEN Reversed(Ascending(S)) ELSE Ascending(S)

\* node.final_states: one state per transition out of the node, after the state
\* of an indirect jump whose ip is symbolic (<< >>) or the address of no successor
FinalStates(n) ==
    LET dsts == Iter(Successors(n))
    IN  (IF n \in DOMAIN unresolved THEN <<FinalState("Ijk_Boring", unresolved[n])>> ELSE << >>)
        \o [i \in 1..Len(dsts) |-> FinalState(cfg.edges[<<n, dsts[i]>>].jumpkind, <<dsts[i]>>)]

\* state.log.actions.  Blocks at odd addresses write register 0 from a constant.
\* The others, by program: "regs" read the register; "store" read it into
\* temporary 1 and store the temporary at address 16, all in one statement;
\* "exit" leave on a condition held in temporary 1, which the block never wrote.
NodeActions(n) ==
    IF n % 2 = 1 THEN <<RegAction("write", n, 1, 0, RegSize, {}, {})>>
    ELSE IF program = "regs" THEN <<RegAction("read", n, 1, 0, RegSize, {}, {})>>
    ELSE IF program = "store"
    THEN <<RegAction("read", n, 1, 0, RegSize, {}, {}),
           TmpAction("write", n, 1, 1, {}),
           MemAction("write", n, 1, << >>, [symbolic |-> FALSE, value |-> 16], RegSize, {}, {}, {}, {1})>>
    ELSE <<ExitAction(n, 1, {1})>>

CallAllowed_Always(call_depth) == TRUE

\* line 701
CallAllowed(call_depth) == _call_depth = << >> \/ call_depth < _call_depth[1]

\* lines 695-719: one edge of the for loop.  w holds worklist, worklist_set,
\* stack, traversed_nodes and inserted.
VisitEdge(w, n, call_depth, dst) ==
    LET jumpkind == cfg.edges[<<n, dst>>].jumpkind
        seen == [w EXCEPT !.traversed_nodes = @ \cup {dst}]
        Push(depth) ==
            [seen EXCEPT !.inserted = @ \cup {dst},
                         !.worklist = Append(@, DDGJob(dst, depth)),
                         !.worklist_set = @ \cup {dst},
                         !.stack = Append(@, DDGJob(dst, depth))]
    IN  IF dst \in w.traversed_nodes \/ dst \in w.worklist_set THEN w
        ELSE IF jumpkind = "Ijk_Call"
             THEN (IF CallAllowed(call_depth) THEN Push(call_depth + 1) ELSE seen)
        ELSE IF jumpkind = "Ijk_Ret"
             THEN (IF call_depth > 0 THEN Push(call_depth - 1) ELSE seen)
        ELSE Push(call_depth)

RECURSIVE VisitEdges(_, _, _, _, _)
VisitEdges(w, n, call_depth, dsts, i) ==
    IF i > Len(dsts) THEN w
    ELSE VisitEdges(VisitEdge(w, n, call_depth, dsts[i]), n, call_depth, dsts, i + 1)

\* lines 687-719
RECURSIVE Expand(_)
Expand(w) ==
    IF w.stack = << >> THEN w
    ELSE LET nw == w.stack[Len(w.stack)]
             popped == [w EXCEPT !.stack = SubSeq(@, 1, Len(@) - 1)]
         IN  Expand(VisitEdges(popped, nw.cfg_node, nw.call_depth,
                               Iter(Successors(nw.cfg_node)), 1))

AlreadyPending_Never(cfg_node, ws) == FALSE

\* line 676
AlreadyPending(cfg_node, ws) == cfg_node \in ws

\* The worklist and worklist_set after the call, and the set returned
_worklist_append(node_wrapper, wl, ws) ==
    IF AlreadyPending(node_wrapper.cfg_node, ws)
    THEN [worklist |-> wl, worklist_set |-> ws, inserted |-> {}]
    ELSE LET w == Expand([worklist |-> Append(wl, node_wrapper),
                          worklist_set |-> ws \cup {node_wrapper.cfg_node},
                          stack |-> <<node_wrapper>>,
                          traversed_nodes |-> {node_wrapper.cfg_node},
                          inserted |-> {node_wrapper.cfg_node}])
         IN  [worklist |-> w.worklist, worklist_set |-> w.worklist_set, inserted |-> w.inserted]

\* History: the depth of the latest job made for each node, after jobs were made
RECURSIVE ScheduledBy(_, _, _)
ScheduledBy(last, jobs, i) ==
    IF i > Len(jobs) THEN last
    ELSE ScheduledBy(Put(last, jobs[i].cfg_node, jobs[i].call_depth), jobs, i + 1)

\* History: the record of a call of _worklist_append(job, wl, ws)
AppendRecord(job, wl, ws) ==
    <<[n |-> IF last_append = << >> THEN 1 ELSE last_append[1].n + 1,
       job |-> job,
       pending |-> job.cfg_node \in ws,
       worklist_set |-> _worklist_append(job, wl, ws).worklist_set]>>

\* line 76: self._start, the start argument or project.entry, the address of block 1
StartAddress == IF _start = << >> THEN 1 ELSE _start[1]

\* line 216: the nodes _construct starts from
InitialNodes == {n \in cfg.nodes : InDegree(n) = 0}

\* lines 215-219
RECURSIVE SeedFrom(_, _, _)
SeedFrom(w, ns, i) ==
    IF i > Len(ns) THEN w
    ELSE SeedFrom(IF ns[i] \in InitialNodes
                  THEN _worklist_append(DDGJob(ns[i], 0), w.worklist, w.worklist_set)
                  ELSE w,
                  ns, i + 1)

\* lines 268-272: the dictionary of a node, made on its first use
WithDict(defs_per_node, n) ==
    IF n \in DOMAIN defs_per_node THEN defs_per_node ELSE Put(defs_per_node, n, NoDefs)

AddLocs_Replace(held, code_loc_set) == code_loc_set

\* lines 282-286: the set the successor holds, after the adds
AddLocs(held, code_loc_set) == held \cup code_loc_set

Changed_Always(fresh, grown) == TRUE

\* lines 274-286: changed, from the variables stored and the variables added to
Changed(fresh, grown) == fresh # {} \/ grown # {}

\* lines 268-286: new_defs goes into the dictionary of successing_node.  A variable
\* the successor lacks takes the very set object of new_defs (line 278); a set made
\* by _kill is from then on known by the successor it was first stored in.  An add
\* (line 285) shows in every dictionary that holds the same set object.
Merge(defs_per_node, successing_node, new_defs) ==
    LET with == WithDict(defs_per_node, successing_node)
        defs_for_next_node == with[successing_node]
        fresh == (DOMAIN new_defs) \ (DOMAIN defs_for_next_node)
        grown == {var \in (DOMAIN new_defs) \cap (DOMAIN defs_for_next_node) :
                    ~(new_defs[var].locs \subseteq defs_for_next_node[var].locs)}
        Stored(var) ==
            [id |-> IF new_defs[var].id = 0 THEN successing_node ELSE new_defs[var].id,
             locs |-> new_defs[var].locs]
        Entry(n, var) ==
            IF n = successing_node /\ var \in fresh THEN Stored(var)
            ELSE IF var \in grown /\ with[n][var].id = defs_for_next_node[var].id
                 THEN [with[n][var] EXCEPT !.locs = AddLocs(@, new_defs[var].locs)]
            ELSE with[n][var]
    IN  [defs |-> [n \in DOMAIN with |->
                    [var \in (DOMAIN with[n]) \cup (IF n = successing_node THEN fresh ELSE {}) |->
                        Entry(n, var)]],
         changed |-> Changed(fresh, grown)]

\* lines 248-252
NewCallDepth(state, call_depth) ==
    IF state.jumpkind = "Ijk_Call" THEN call_depth + 1
    ELSE IF state.jumpkind = "Ijk_Ret" THEN call_depth - 1
    ELSE call_depth

\* line 244
IsSkippedFakeRet(state, final_states) ==
    state.jumpkind = "Ijk_FakeRet" /\ Len(final_states) > 1

\* line 254
IsTooDeep(call_depth) == _call_depth # << >> /\ call_depth > _call_depth[1]

WithinBound_Always(new_call_depth) == TRUE

\* lines 289-290
WithinBound(new_call_depth) ==
    _call_depth = << >> \/ (0 <= new_call_depth /\ new_call_depth <= _call_depth[1])

\* Mutant: every successor corresponds, whatever the ip
CorrespondingSuccessors_All(node, state) == Iter(Successors(node))

\* lines 262-263: node.addr is the number of the node
CorrespondingSuccessors(node, state) ==
    IF state.ip = << >> THEN << >>
    ELSE SelectSeq(Iter(Successors(node)), LAMBDA n : n = state.ip[1])

\* line 62: keep_data=False
KeepData == FALSE

KeepStateMissing_Ignored == FALSE

\* line 72
KeepStateMissing == ~_keep_state

\* lines 732-735: the function a block belongs to; of the functions that list
\* it, the one iterated last
AddrToFunc_First(fs) ==
    [block \in UNION {fs[i].blocks : i \in 1..Len(fs)} |->
        fs[CHOOSE i \in 1..Len(fs) :
              /\ block \in fs[i].blocks
              /\ \A j \in 1..Len(fs) : block \in fs[j].blocks => i <= j].name]

AddrToFunc(fs) ==
    [block \in UNION {fs[i].blocks : i \in 1..Len(fs)} |->
        fs[CHOOSE i \in 1..Len(fs) :
              /\ block \in fs[i].blocks
              /\ \A j \in 1..Len(fs) : block \in fs[j].blocks => j <= i].name]

FunctionEdges_SrcOnly(graph, simrun_addr_to_func, func) ==
    {e \in DOMAIN graph.edges :
        e[1].bbl \in DOMAIN simrun_addr_to_func /\ simrun_addr_to_func[e[1].bbl] = func}

\* lines 737-747: the edges added to the graph of func
FunctionEdges(graph, simrun_addr_to_func, func) ==
    {e \in DOMAIN graph.edges :
        \/ e[1].bbl \in DOMAIN simrun_addr_to_func /\ simrun_addr_to_func[e[1].bbl] = func
        \/ e[2].bbl \in DOMAIN simrun_addr_to_func /\ simrun_addr_to_func[e[2].bbl] = func}

\* lines 723-747: the defaultdict, with a graph for each function given an edge
_build_function_dependency_graphs(graph, fs) ==
    LET simrun_addr_to_func == AddrToFunc(fs)
        Edges(func) == FunctionEdges(graph, simrun_addr_to_func, func)
        funcs == {func \in {fs[i].name : i \in 1..Len(fs)} : Edges(func) # {}}
    IN  [func \in funcs |->
            [nodes |-> {e[1] : e \in Edges(func)} \cup {e[2] : e \in Edges(func)},
             edges |-> [e \in Edges(func) |-> graph.edges[e]]]]

\* lines 168-183: << >> for None, else <<graph>>
function_dependency_graph(deps, func) ==
    IF func \in DOMAIN deps THEN <<deps[func]>> ELSE << >>

\* _construct is not running
ConstructIdle ==
    /\ cfg = EmptyGraph
    /\ _keep_state = TRUE
    /\ _start = << >>
    /\ program = "regs"
    /\ unresolved = << >>
    /\ seeded = {}
    /\ last_scheduled = << >>
    /\ last_append = << >>
    /\ functions = << >>
    /\ _function_data_dependencies = << >>
    /\ _call_depth = << >>
    /\ reverse = FALSE
    /\ pc = "idle"
    /\ worklist = << >>
    /\ worklist_set = {}
    /\ live_defs_per_node = [n \in {} |-> NoDefs]
    /\ ddg_job = DDGJob(0, 0)
    /\ state_idx = 0
    /\ processed = {}
    /\ tracked = {}
    /\ propagations = {}

\* No _track call is running
TrackIdle ==
    /\ trace = << >>
    /\ trk = TrackLocals(NewSelf, FALSE, NoDefs)
    /\ entering_defs = NoDefs

ApiIdle ==
    /\ raised = ""
    /\ budget = 0
    /\ last_call = [op |-> "", existed |-> FALSE]

(***************************************************************************)
(* The graph builders called directly, with arguments from small sets.     *)
(***************************************************************************)
MaxCalls == 3

MaxDataCalls == 4

ApiLocations == {CodeLocation(1, 0), CodeLocation(1, 1)}

ApiTemporaries == {ProgramVariable(TmpVar(t), CodeLocation(1, 0)) : t \in {1, 2}}

\* Data graph edges are drawn from a register or a temporary to a temporary or
\* another register
ApiSources == {ProgramVariable(RegVar(0, RegSize), CodeLocation(1, 0))} \cup ApiTemporaries

ApiDestinations == {ProgramVariable(RegVar(1, RegSize), CodeLocation(1, 1))} \cup ApiTemporaries

ApiNodes == ApiSources \cup ApiDestinations

ApiDataLabels == {NoLabels, TypeLabel("mem_addr"), TypeLabel("mem_data")}

ApiStmtLabels == {[type |-> "reg", count |-> 0], [type |-> "tmp"]}

ApiSubtypes == {"mem_addr", "mem_data"}

ApiEdgeLists == {<<e>> : e \in ApiLocations \X ApiLocations}
                    \cup {<<e, e>> : e \in ApiLocations \X ApiLocations}

GraphInit(calls) ==
    /\ stmt_graph = EmptyGraph
    /\ data_graph = EmptyGraph
    /\ simplified_data_graph = << >>
    /\ raised = ""
    /\ budget = calls
    /\ last_call = [op |-> "", existed |-> FALSE]
    /\ TrackIdle
    /\ ConstructIdle

Called(op, existed, d) ==
    /\ budget > 0
    /\ budget' = budget - 1
    /\ last_call' = [op |-> op, existed |-> existed]
    /\ SetSelf(d)
    /\ raised' = ""
    /\ UNCHANGED trackVars
    /\ UNCHANGED constructVars

DataGraphAddNode(node) ==
    Called("_data_graph_add_node", node \in data_graph.nodes, _data_graph_add_node(Self, node))

DataGraphAddEdge(src, dst, labels) ==
    Called("_data_graph_add_edge", HasEdge(data_graph, src, dst),
           _data_graph_add_edge(Self, src, dst, labels))

StmtGraphAddEdge(src, dst, labels) ==
    Called("_stmt_graph_add_edge", HasEdge(stmt_graph, src, dst),
           _stmt_graph_add_edge(Self, src, dst, labels))

StmtGraphAnnotateEdges(edges, subtype) ==
    Called("_stmt_graph_annotate_edges", \A i \in 1..Len(edges) : HasEdge(stmt_graph, edges[i][1], edges[i][2]),
           _stmt_graph_annotate_edges(Self, edges, [k \in {"subtype"} |-> subtype]))

ReadSimplifiedDataGraph(all_nodes) ==
    LET r == simplified_data_graph_get(Self, all_nodes)
    IN  /\ budget > 0
        /\ budget' = budget - 1
        /\ last_call' = [op |-> "simplified_data_graph", existed |-> simplified_data_graph # << >>]
        /\ SetSelf(r.self)
        /\ raised' = r.raised
        /\ UNCHANGED trackVars
    /\ UNCHANGED constructVars

DataCalls ==
    \/ \E n \in ApiNodes : DataGraphAddNode(n)
    \/ \E src \in ApiSources, dst \in ApiDestinations, labels \in ApiDataLabels :
            DataGraphAddEdge(src, dst, labels)
    \/ \E o \in Orders(TempNodes(data_graph)) : ReadSimplifiedDataGraph(o)

StmtCalls ==
    \/ \E src, dst \in ApiLocations, labels \in ApiStmtLabels : StmtGraphAddEdge(src, dst, labels)
    \/ \E edges \in ApiEdgeLists, subtype \in ApiSubtypes : StmtGraphAnnotateEdges(edges, subtype)

GraphNext == DataCalls \/ StmtCalls

vars == <<stmt_graph, data_graph, simplified_data_graph, raised, budget, last_call, trace, trk, entering_defs,
         cfg, _keep_state, _start, program, unresolved, _call_depth, reverse, pc, worklist,
         worklist_set, live_defs_per_node, ddg_job, state_idx, processed, tracked,
         propagations, seeded, last_scheduled, last_append, functions,
         _function_data_dependencies>>

\* Both graphs' builders
SpecGraph == GraphInit(MaxCalls) /\ [][GraphNext]_vars

\* The data graph and its simplified cache
SpecData == GraphInit(MaxDataCalls) /\ [][DataCalls]_vars

(***************************************************************************)
(* Claims about the simplifier and the cache (specification SpecData).     *)
(***************************************************************************)
NonTemporaries(g) == {n \in g.nodes : ~IsTemporary(n)}

\* Every result _simplify_data_graph can return for the current data graph
SimplifyResults ==
    {r \in {_simplify_data_graph(data_graph, o) : o \in Orders(TempNodes(data_graph))} : r.ok}

\* A pred -> T -> succ chain through a temporary, between two non-temporaries
TempChains(g) ==
    {c \in g.nodes \X g.nodes \X g.nodes :
        /\ IsTemporary(c[2]) /\ ~IsTemporary(c[1]) /\ ~IsTemporary(c[3])
        /\ HasEdge(g, c[1], c[2]) /\ HasEdge(g, c[2], c[3])}

\* C7: the graph _simplify_data_graph returns holds no node whose variable is a
\* temporary and holds every non-temporary node of the data graph it was given.
C7_NoTemporaryLeft ==
    \A r \in SimplifyResults :
        /\ TempNodes(r.g) = {}
        /\ NonTemporaries(data_graph) \subseteq r.g.nodes

\* C7 witness: the cached result of simplifying a graph with a temporary between
\* two registers.
C7_Witness ==
    /\ simplified_data_graph # << >>
    /\ TempChains(data_graph) # {}
    /\ simplified_data_graph[1] \in {r.g : r \in SimplifyResults}

\* C8 as claimed: for every chain pred -> T -> succ the simplified graph has the
\* edge pred -> succ labelled with the in-edge's labels overlaid by the out-edge's.
C8_ChainLabelsAsClaimed ==
    \A r \in SimplifyResults : \A c \in TempChains(data_graph) :
        /\ HasEdge(r.g, c[1], c[3])
        /\ r.g.edges[<<c[1], c[3]>>] =
              Update(data_graph.edges[<<c[1], c[2]>>], data_graph.edges[<<c[2], c[3]>>])

\* The temporaries reachable from node n along edges whose inner nodes are all
\* temporaries (forward), and those from which n is so reachable (backward)
RECURSIVE TempClosure(_, _, _)
TempClosure(g, seen, forward) ==
    LET more == {t \in TempNodes(g) \ seen :
                    \E s \in seen : IF forward THEN HasEdge(g, s, t) ELSE HasEdge(g, t, s)}
    IN  IF more = {} THEN seen ELSE TempClosure(g, seen \cup more, forward)

TempsBetween(g, pred, succ) ==
    (TempClosure(g, {pred}, TRUE) \ {pred}) \cap (TempClosure(g, {succ}, FALSE) \ {succ})

\* The chain c is the only way from its pred to its succ: no direct edge and no
\* other temporary on a path between them
OnlyRoute(g, c) == ~HasEdge(g, c[1], c[3]) /\ TempsBetween(g, c[1], c[3]) = {c[2]}

\* C8 (amended): for every chain pred -> T -> succ the simplified graph has the edge
\* pred -> succ; when the chain is the only route from pred to succ (no direct
\* pred -> succ edge and no other temporary between them) its labels are the
\* in-edge's labels overlaid by the out-edge's labels.
C8_ChainSpliced ==
    \A r \in SimplifyResults : \A c \in TempChains(data_graph) :
        /\ HasEdge(r.g, c[1], c[3])
        /\ OnlyRoute(data_graph, c) =>
              r.g.edges[<<c[1], c[3]>>] =
                Update(data_graph.edges[<<c[1], c[2]>>], data_graph.edges[<<c[2], c[3]>>])

\* C8 witness: a cached simplification of a graph where a labelled chain is the only
\* route and both of its edges carry a type.
C8_Witness ==
    /\ simplified_data_graph # << >>
    /\ \E c \in TempChains(data_graph) :
          /\ OnlyRoute(data_graph, c)
          /\ data_graph.edges[<<c[1], c[2]>>] = TypeLabel("mem_addr")
          /\ data_graph.edges[<<c[2], c[3]>>] = TypeLabel("mem_data")
          /\ simplified_data_graph[1].edges[<<c[1], c[3]>>] = TypeLabel("mem_data")

\* C9 as claimed, edges taken with their labels: any two removal orders give the
\* same labelled edges.
C9_SameLabelledEdgesAnyOrder ==
    \A r1, r2 \in SimplifyResults : r1.g.edges = r2.g.edges

\* C9 (amended): any two removal orders give the same nodes and the same
\* (src, dst) pairs; the labels of an edge may differ with the order.
C9_SameEdgePairsAnyOrder ==
    /\ \A r1, r2 \in SimplifyResults :
          r1.g.nodes = r2.g.nodes /\ DOMAIN r1.g.edges = DOMAIN r2.g.edges
    /\ \A o1, o2 \in Orders(TempNodes(data_graph)) :
          _simplify_data_graph(data_graph, o1).ok = _simplify_data_graph(data_graph, o2).ok

\* C9 witness: two temporaries, hence two orders, and a simplified graph with an
\* edge that only exists through both of them.
C9_Witness ==
    /\ Cardinality(TempNodes(data_graph)) = 2
    /\ simplified_data_graph # << >>
    /\ \E a \in NonTemporaries(data_graph), b \in NonTemporaries(data_graph) :
          /\ HasEdge(simplified_data_graph[1], a, b)
          /\ TempChains(data_graph) = {}

\* The cache is absent or is a simplification of the current data graph
CacheFresh ==
    simplified_data_graph = << >> \/ simplified_data_graph[1] \in {r.g : r \in SimplifyResults}

\* C10: after any interleaving of _data_graph_add_node, _data_graph_add_edge and
\* reads of simplified_data_graph the cache is None or the simplification of the
\* current data graph, and every call that changes the data graph resets the cache.
C10_CacheNeverStale ==
    /\ [](CacheFresh)
    /\ [][data_graph' # data_graph => simplified_data_graph' = << >>]_vars

\* C10 witness: the cache computed by a read that follows mutations of the data
\* graph, which holds a chain through a temporary.
C10_Witness ==
    /\ simplified_data_graph # << >>
    /\ budget = 0
    /\ TempChains(data_graph) # {}
    /\ last_call = [op |-> "simplified_data_graph", existed |-> FALSE]

(***************************************************************************)
(* Claims about the two builders (specification SpecGraph).                *)
(***************************************************************************)
\* C1: a second _stmt_graph_add_edge or _data_graph_add_edge for an edge that exists
\* leaves the graph as it was, whatever labels it carries; no edge ever disappears,
\* the labels of a statement graph edge change only in _stmt_graph_annotate_edges
\* and the labels of a data graph edge never change.
C1_IdempotentEdgeInsertion ==
    [][/\ \A src \in ApiLocations, dst \in ApiLocations, labels \in ApiStmtLabels :
            (HasEdge(stmt_graph, src, dst) /\ StmtGraphAddEdge(src, dst, labels))
                => stmt_graph' = stmt_graph
       /\ \A src \in ApiSources, dst \in ApiDestinations, labels \in ApiDataLabels :
            (HasEdge(data_graph, src, dst) /\ DataGraphAddEdge(src, dst, labels))
                => data_graph' = data_graph
       /\ \A e \in DOMAIN stmt_graph.edges :
            /\ e \in DOMAIN stmt_graph'.edges
            /\ stmt_graph'.edges[e] # stmt_graph.edges[e]
                  => last_call'.op = "_stmt_graph_annotate_edges"
       /\ \A e \in DOMAIN data_graph.edges :
            e \in DOMAIN data_graph'.edges /\ data_graph'.edges[e] = data_graph.edges[e]
      ]_vars

\* C1 witness: the last call was a second insertion of a statement graph edge that
\* had been annotated in between, and the edge still has the labels of its first
\* insertion and the annotation.
C1_Witness ==
    /\ last_call = [op |-> "_stmt_graph_add_edge", existed |-> TRUE]
    /\ \E e \in DOMAIN stmt_graph.edges :
          "subtype" \in DOMAIN stmt_graph.edges[e] /\ "type" \in DOMAIN stmt_graph.edges[e]

(***************************************************************************)
(* One call of _track, action by action.  The action list is an input: it  *)
(* is drawn one action at a time from a menu, every action in block 1 at   *)
(* the statement of the action before it or at the next one.  The live     *)
(* definitions entering the node come from block 2.                        *)
(***************************************************************************)
MaxTrace == 3

EnteringLocation == CodeLocation(2, 0)

EnteringDefs ==
    {NoDefs,
     [v \in {RegVar(0, RegSize), RegVar(1, RegSize), MemVar(16, RegSize)} |->
        [id |-> 2, locs |-> {EnteringLocation}]]}

RegMenu(stmt) ==
    {RegAction(action, 1, stmt, offset, RegSize, {}, {}) :
        action \in {"read", "write"}, offset \in {0, 1}}
    \cup {RegAction(action, 1, stmt, 1, RegSize, {}, {1}) : action \in {"read", "write"}}
    \cup {RegAction("write", 1, stmt, 1, 2 * RegSize, {}, {})}

TmpMenu(stmt) == {TmpAction(action, 1, stmt, 1, {}) : action \in {"read", "write"}}

ExitMenu(stmt) == {ExitAction(1, stmt, {1})}

MemMenu(stmt) ==
    {MemAction("write", 1, stmt, << >>, [symbolic |-> FALSE, value |-> 16],
               RegSize, {}, {}, {}, {1}),
     MemAction("write", 1, stmt, << >>, [symbolic |-> TRUE, value |-> 0],
               RegSize, {1}, {1}, {}, {}),
     MemAction("read", 1, stmt, <<<<16>>>>, NoAddr, RegSize, {}, {1}, {}, {})}

\* The statement of the next action: that of the last one, or the one after it
NextStmts == IF trace = << >> THEN {1} ELSE {trace[Len(trace)].stmt_idx, trace[Len(trace)].stmt_idx + 1}

TrackInit ==
    /\ stmt_graph = EmptyGraph
    /\ data_graph = EmptyGraph
    /\ simplified_data_graph = << >>
    /\ ApiIdle
    /\ ConstructIdle
    /\ trace = << >>
    /\ entering_defs \in EnteringDefs
    /\ \E keep_data \in BOOLEAN : trk = TrackLocals(NewSelf, keep_data, entering_defs)

\* _track scans the next action a of the list
Scan(a) ==
    /\ Len(trace) < MaxTrace
    /\ trk.raised = ""
    /\ trace' = Append(trace, a)
    /\ trk' = TrackAction(trk, a)
    /\ SetSelf(trk'.self)
    /\ raised' = trk'.raised
    /\ entering_defs' = CallerDefs(entering_defs, trk')
    /\ UNCHANGED <<budget, last_call>>
    /\ UNCHANGED constructVars

ScanReg == \E stmt \in NextStmts : \E a \in RegMenu(stmt) : Scan(a)

ScanTmp == \E stmt \in NextStmts : \E a \in TmpMenu(stmt) : Scan(a)

ScanExit == \E stmt \in NextStmts : \E a \in ExitMenu(stmt) : Scan(a)

ScanMem == \E stmt \in NextStmts : \E a \in MemMenu(stmt) : Scan(a)

TrackNext == ScanReg \/ ScanTmp \/ ScanExit \/ ScanMem

\* One _track call on every action list of the menu
SpecTrack == TrackInit /\ [][TrackNext]_vars

(***************************************************************************)
(* Claims about one _track call (SpecTrack)                                *)
(***************************************************************************)
IsRegWrite(a) == a.type = "reg" /\ a.action = "write"

IsRegRead(a) == a.type = "reg" /\ a.action = "read"

VariableOf(a) == RegVar(a.offset, a.size)

\* The positions of tr that write the register variable
WritesOf(tr, variable) == {i \in 1..Len(tr) : IsRegWrite(tr[i]) /\ VariableOf(tr[i]) = variable}

Max(S) == CHOOSE x \in S : \A y \in S : y <= x

LastWriteLocation(tr, variable) == ActionLocation(tr[Max(WritesOf(tr, variable))])

NewStmtEdges == (DOMAIN stmt_graph'.edges) \ (DOMAIN stmt_graph.edges)

\* The action scanned by this step
Scanned == trace'[Len(trace')]

\* C2: a register write at location L leaves {L} as the whole reaching set of the
\* variable, and a read of a register variable written earlier in the same trace
\* adds statement edges from the location of the latest such write only: not from
\* an earlier write, not from a definition that entered the node.
C2_KillOnWrite ==
    [][trace' # trace =>
        /\ IsRegWrite(Scanned) =>
              trk'.live_defs[VariableOf(Scanned)].locs = {ActionLocation(Scanned)}
        /\ (IsRegRead(Scanned) /\ WritesOf(trace, VariableOf(Scanned)) # {}) =>
              NewStmtEdges \subseteq
                 {<<LastWriteLocation(trace, VariableOf(Scanned)), ActionLocation(Scanned)>>}]_vars

\* Two writes of one register at two statements, then a read of it at a third,
\* in a node the register entered with a definition: one edge, from the second write
C2_Witness ==
    /\ Len(trace) = 3
    /\ IsRegWrite(trace[1]) /\ IsRegWrite(trace[2]) /\ IsRegRead(trace[3])
    /\ VariableOf(trace[1]) = VariableOf(trace[2])
    /\ VariableOf(trace[2]) = VariableOf(trace[3])
    /\ trace[1].stmt_idx < trace[2].stmt_idx
    /\ trace[2].stmt_idx < trace[3].stmt_idx
    /\ VariableOf(trace[3]) \in DOMAIN entering_defs
    /\ raised = ""
    /\ DOMAIN stmt_graph.edges = {<<ActionLocation(trace[2]), ActionLocation(trace[3])>>}

(***************************************************************************)
(* _construct on every CFG of a family: some of the candidate transitions  *)
(* below, between blocks 1 to 4, at most one per pair of blocks; every     *)
(* call-depth setting; either iteration order.                             *)
(***************************************************************************)
MaxEdges == 5

CandidateEdges ==
    {<<1, 2, "Ijk_Boring">>, <<1, 3, "Ijk_Boring">>, <<2, 3, "Ijk_Boring">>,
     <<2, 4, "Ijk_Boring">>, <<3, 4, "Ijk_Boring">>, <<4, 3, "Ijk_Boring">>,
     <<3, 3, "Ijk_Boring">>,
     <<1, 3, "Ijk_Call">>, <<2, 3, "Ijk_Call">>, <<1, 2, "Ijk_FakeRet">>,
     <<4, 2, "Ijk_Ret">>, <<3, 2, "Ijk_Ret">>}

CallDepths == {<< >>, <<-1>>, <<0>>, <<1>>}

CfgOf(E) ==
    [nodes |-> {e[1] : e \in E} \cup {e[2] : e \in E},
     edges |-> [p \in {<<e[1], e[2]>> : e \in E} |->
                  JumpkindLabel((CHOOSE e \in E : <<e[1], e[2]>> = p)[3])]]

Cfgs ==
    {CfgOf(E) : E \in {F \in SUBSET CandidateEdges :
                        /\ Cardinality(F) <= MaxEdges
                        /\ \A e, f \in F : (e[1] = f[1] /\ e[2] = f[2]) => e = f}}

\* The arguments of DDG(cfg, start, keep_data, call_depth), before __init__ runs
ConstructInitOn(cfgs, keep_states, starts, programs, unresolveds, call_depths) ==
    /\ stmt_graph = EmptyGraph
    /\ data_graph = EmptyGraph
    /\ simplified_data_graph = << >>
    /\ ApiIdle
    /\ TrackIdle
    /\ cfg \in cfgs
    /\ _keep_state \in keep_states
    /\ _start \in starts
    /\ program \in programs
    /\ unresolved \in unresolveds
    /\ _call_depth \in call_depths
    /\ reverse \in BOOLEAN
    /\ seeded = {}
    /\ last_scheduled = << >>
    /\ last_append = << >>
    /\ functions = << >>
    /\ _function_data_dependencies = << >>
    /\ pc = "new"
    /\ worklist = << >>
    /\ worklist_set = {}
    /\ live_defs_per_node = [n \in {} |-> NoDefs]
    /\ ddg_job = DDGJob(0, 0)
    /\ state_idx = 0
    /\ processed = {}
    /\ tracked = {}
    /\ propagations = {}

idleVars == <<budget, last_call, trace, trk, entering_defs>>

ConstructInit == ConstructInitOn(Cfgs, {TRUE}, {<< >>}, {"regs"}, {<< >>}, CallDepths)

inputVars == <<cfg, _keep_state, _start, program, unresolved, _call_depth, reverse, functions,
              _function_data_dependencies>>

\* lines 62-91: __init__ checks the CFG and makes the empty graphs
Create ==
    /\ pc = "new"
    /\ SetSelf(NewSelf)
    /\ IF KeepStateMissing
       THEN raised' = "AngrDDGError" /\ pc' = "done"
       ELSE raised' = raised /\ pc' = "seed"
    /\ UNCHANGED <<idleVars, inputVars, worklist, worklist_set, live_defs_per_node, ddg_job,
                   state_idx, processed, tracked, propagations, seeded, last_scheduled,
                   last_append>>

\* lines 211-219
Seed ==
    /\ pc = "seed"
    /\ LET w == SeedFrom([worklist |-> << >>, worklist_set |-> {}, inserted |-> {}],
                         Iter(cfg.nodes), 1)
           last == Iter(InitialNodes)[Cardinality(InitialNodes)]
       IN  /\ worklist' = w.worklist
           /\ worklist_set' = w.worklist_set
           /\ last_scheduled' = ScheduledBy(last_scheduled, w.worklist, 1)
           /\ last_append' =
                 IF InitialNodes = {} THEN last_append
                 ELSE <<[n |-> Cardinality(InitialNodes), job |-> DDGJob(last, 0),
                         pending |-> FALSE, worklist_set |-> w.worklist_set]>>
    /\ seeded' = InitialNodes
    /\ pc' = "loop"
    /\ UNCHANGED <<graphVars, raised, idleVars, inputVars, live_defs_per_node, ddg_job,
                   state_idx, processed, tracked, propagations>>

\* lines 225-242: a job is popped; worklist_set.remove raises when the node is not in it
Pop ==
    /\ pc = "loop"
    /\ worklist # << >>
    /\ LET node == worklist[1].cfg_node
       IN  /\ ddg_job' = worklist[1]
           /\ worklist' = Tail(worklist)
           /\ processed' = processed \cup {node}
           /\ IF node \notin worklist_set
              THEN /\ raised' = "KeyError"
                   /\ pc' = "done"
                   /\ UNCHANGED <<worklist_set, live_defs_per_node, state_idx>>
              ELSE /\ worklist_set' = worklist_set \ {node}
                   /\ live_defs_per_node' = WithDict(live_defs_per_node, node)
                   /\ state_idx' = 1
                   /\ pc' = IF FinalStates(node) = << >> THEN "loop" ELSE "states"
                   /\ UNCHANGED raised
    /\ UNCHANGED <<graphVars, idleVars, inputVars, tracked, propagations, seeded,
                   last_scheduled, last_append>>

\* The for loop over final_states moves on
Advance ==
    /\ state_idx' = state_idx + 1
    /\ pc' = IF state_idx = Len(FinalStates(ddg_job.cfg_node)) THEN "loop" ELSE "states"

CurrentState == FinalStates(ddg_job.cfg_node)[state_idx]

\* lines 244-246
SkipFakeRet ==
    /\ pc = "states"
    /\ IsSkippedFakeRet(CurrentState, FinalStates(ddg_job.cfg_node))
    /\ Advance
    /\ UNCHANGED <<graphVars, raised, idleVars, inputVars, worklist, worklist_set,
                   live_defs_per_node, ddg_job, processed, tracked, propagations, seeded,
                   last_scheduled, last_append>>

\* lines 254-256
SkipTooDeep ==
    /\ pc = "states"
    /\ ~IsSkippedFakeRet(CurrentState, FinalStates(ddg_job.cfg_node))
    /\ IsTooDeep(ddg_job.call_depth)
    /\ Advance
    /\ UNCHANGED <<graphVars, raised, idleVars, inputVars, worklist, worklist_set,
                   live_defs_per_node, ddg_job, processed, tracked, propagations, seeded,
                   last_scheduled, last_append>>

\* lines 258-293
TrackState ==
    /\ pc = "states"
    /\ ~IsSkippedFakeRet(CurrentState, FinalStates(ddg_job.cfg_node))
    /\ ~IsTooDeep(ddg_job.call_depth)
    /\ LET node == ddg_job.cfg_node
           new_call_depth == NewCallDepth(CurrentState, ddg_job.call_depth)
           t == _track(Self, KeepData, NodeActions(node), live_defs_per_node[node])
           new_defs == t.live_defs
           corresponding_successors == CorrespondingSuccessors(node, CurrentState)
           successing_node == corresponding_successors[1]
           tracked_from == [live_defs_per_node EXCEPT ![node] = CallerDefs(@, t)]
           merged == Merge(tracked_from, successing_node, new_defs)
           w == IF merged.changed /\ WithinBound(new_call_depth)
                THEN _worklist_append(DDGJob(successing_node, new_call_depth),
                                      worklist, worklist_set)
                ELSE [worklist |-> worklist, worklist_set |-> worklist_set, inserted |-> {}]
       IN  /\ SetSelf(t.self)
           /\ tracked' = tracked \cup {node}
           /\ IF t.raised # ""
              THEN /\ raised' = t.raised
                   /\ pc' = "done"
                   /\ live_defs_per_node' = tracked_from
                   /\ UNCHANGED <<worklist, worklist_set, state_idx, propagations,
                                  last_scheduled, last_append>>
              ELSE IF corresponding_successors = << >>
              THEN /\ Advance
                   /\ live_defs_per_node' = tracked_from
                   /\ UNCHANGED <<raised, worklist, worklist_set, propagations,
                                  last_scheduled, last_append>>
              ELSE /\ live_defs_per_node' = merged.defs
                   /\ worklist' = w.worklist
                   /\ worklist_set' = w.worklist_set
                   /\ IF merged.changed /\ WithinBound(new_call_depth)
                      THEN /\ last_scheduled' =
                                ScheduledBy(Put(last_scheduled, successing_node, new_call_depth),
                                            w.worklist, Len(worklist) + 1)
                           /\ last_append' = AppendRecord(DDGJob(successing_node, new_call_depth),
                                                          worklist, worklist_set)
                      ELSE UNCHANGED <<last_scheduled, last_append>>
                   /\ propagations' = propagations \cup
                         {[src |-> node, dst |-> successing_node, defs |-> Locs(new_defs)]}
                   /\ Advance
                   /\ UNCHANGED raised
    /\ UNCHANGED <<idleVars, inputVars, ddg_job, processed, seeded>>

\* line 225: the worklist is empty, _construct returns
Finish ==
    /\ pc = "loop"
    /\ worklist = << >>
    /\ pc' = "done"
    /\ UNCHANGED <<graphVars, raised, idleVars, inputVars, worklist, worklist_set,
                   live_defs_per_node, ddg_job, state_idx, processed, tracked, propagations,
                   seeded, last_scheduled, last_append>>

ConstructNext == Create \/ Seed \/ Pop \/ SkipFakeRet \/ SkipTooDeep \/ TrackState \/ Finish

SpecConstruct == ConstructInit /\ [][ConstructNext]_vars

(***************************************************************************)
(* Claims about _construct (SpecConstruct)                                 *)
(***************************************************************************)
\* Every dictionary that holds a set object shows the same locations
SetObjectsAgree ==
    \A m, n \in DOMAIN live_defs_per_node :
        \A var \in (DOMAIN live_defs_per_node[m]) \cap (DOMAIN live_defs_per_node[n]) :
            live_defs_per_node[m][var].id = live_defs_per_node[n][var].id
                => live_defs_per_node[m][var].locs = live_defs_per_node[n][var].locs

\* C3: whatever a node has propagated into a successor stays in the successor's
\* live definitions: every location of every variable of every merge done so far,
\* so that a join node holds the locations of both its predecessors, in whichever
\* order the two were processed.
C3_MergeOnPropagation ==
    \A p \in propagations :
        \A var \in DOMAIN p.defs :
            /\ p.dst \in DOMAIN live_defs_per_node
            /\ var \in DOMAIN live_defs_per_node[p.dst]
            /\ p.defs[var] \subseteq live_defs_per_node[p.dst][var].locs

\* Two different predecessors have propagated different locations of one variable
\* into the same node, which holds both
C3_Witness ==
    \E p, q \in propagations :
        /\ p.src # q.src
        /\ p.dst = q.dst
        /\ \E var \in (DOMAIN p.defs) \cap (DOMAIN q.defs) :
              /\ p.defs[var] # {} /\ q.defs[var] # {}
              /\ p.defs[var] \cap q.defs[var] = {}
              /\ (p.defs[var] \cup q.defs[var]) \subseteq live_defs_per_node[p.dst][var].locs

\* The output of _track for node n on the live definitions n holds now
OutputOf(n) == Locs(_track(Self, KeepData, NodeActions(n), live_defs_per_node[n]).live_defs)

\* The final states of n that the loop does not skip and that resolve to a
\* successor within the bound: no bound is set, or the transition keeps the depth
Propagating(n) ==
    {i \in 1..Len(FinalStates(n)) :
        /\ ~IsSkippedFakeRet(FinalStates(n)[i], FinalStates(n))
        /\ CorrespondingSuccessors(n, FinalStates(n)[i]) # << >>
        /\ _call_depth = << >> \/ FinalStates(n)[i].jumpkind \notin {"Ijk_Call", "Ijk_Ret"}}

Contained(defs, n) ==
    /\ n \in DOMAIN live_defs_per_node
    /\ \A var \in DOMAIN defs :
          /\ var \in DOMAIN live_defs_per_node[n]
          /\ defs[var] \subseteq live_defs_per_node[n][var].locs

\* C4: when _construct has returned, the live definitions are a fixpoint: the output
\* of _track on the final live definitions of a traced node n is contained in the
\* live definitions of the successor of each propagating final state of n.
C4_FixpointAtTermination ==
    (pc = "done" /\ raised = "") =>
        \A n \in tracked : \A i \in Propagating(n) :
            Contained(OutputOf(n), CorrespondingSuccessors(n, FinalStates(n)[i])[1])

\* The (variable, location) pairs the traces of the CFG can define
Definable ==
    {<<VariableOf(a), ActionLocation(a)>> :
        a \in UNION {{NodeActions(n)[i] : i \in 1..Len(NodeActions(n))} : n \in cfg.nodes}}

NoLocation == CodeLocation(0, 0)

\* What live_defs_per_node can hold at most: per node, a key per variable and
\* the locations under it
Room ==
    cfg.nodes \X {d[1] : d \in Definable} \X ({d[2] : d \in Definable} \cup {NoLocation})

Held ==
    {x \in Room :
        /\ x[1] \in DOMAIN live_defs_per_node
        /\ x[2] \in DOMAIN live_defs_per_node[x[1]]
        /\ x[3] = NoLocation \/ x[3] \in live_defs_per_node[x[1]][x[2]].locs}

\* One growth of the live definitions pays for the jobs one _worklist_append adds
GrowthWeight == Cardinality(cfg.nodes) * (Cardinality(cfg.nodes) + 2) + 1

\* The steps _construct has left at most
Rank ==
    IF pc = "done" THEN 0
    ELSE IF pc = "new" THEN (Cardinality(Room) + 1) * GrowthWeight + 2
    ELSE IF pc = "seed" THEN (Cardinality(Room) + 1) * GrowthWeight + 1
    ELSE 1 + (Cardinality(Room) - Cardinality(Held)) * GrowthWeight
           + Len(worklist) * (Cardinality(cfg.nodes) + 2)
           + (IF pc = "states" THEN Len(FinalStates(ddg_job.cfg_node)) + 1 - state_idx ELSE 0)

\* The guard of one of the actions of _construct holds
CanStep ==
    \/ pc \in {"new", "seed", "loop"}
    \/ pc = "states" /\ state_idx \in 1..Len(FinalStates(ddg_job.cfg_node))

\* C5: the worklist loop of _construct terminates: until it has returned a step
\* is always possible, every step lowers a rank that is never negative, because
\* a job is added only when the live definitions grew within their finite room,
\* and it returns with the worklist empty.
C5_Terminates ==
    /\ [](/\ Rank >= 0
          /\ pc # "done" => CanStep
          /\ (pc = "done" /\ raised = "") => worklist = << >>)
    /\ [][Rank' < Rank]_vars

\* _construct has returned on a CFG with a loop, traced without a depth bound
C5_Witness ==
    /\ pc = "done"
    /\ worklist = << >>
    /\ _call_depth = << >>
    /\ <<3, 4>> \in DOMAIN cfg.edges
    /\ <<4, 3>> \in DOMAIN cfg.edges
    /\ {3, 4} \subseteq tracked

Entries == {n \in cfg.nodes : InDegree(n) = 0}

\* The nodes reached from S along the transitions whose jumpkind is in kinds
RECURSIVE ReachedFrom(_, _)
ReachedFrom(S, kinds) ==
    LET next == S \cup {d \in cfg.nodes :
                          \E s \in S : /\ <<s, d>> \in DOMAIN cfg.edges
                                       /\ cfg.edges[<<s, d>>].jumpkind \in kinds}
    IN  IF next = S THEN S ELSE ReachedFrom(next, kinds)

AllKinds == {"Ijk_Boring", "Ijk_Call", "Ijk_Ret", "Ijk_FakeRet"}

\* The nodes the entries reach, but only through a call
CalledOnly == ReachedFrom(Entries, AllKinds) \ ReachedFrom(Entries, AllKinds \ {"Ijk_Call"})

\* C6: with the call-depth bound 0, a node reached from the entries only through a
\* call is never popped and never given to _track, and no edge of the statement
\* graph has both its ends in such nodes.
C6_CalleeNotTraced ==
    (_call_depth = <<0>>) =>
        /\ CalledOnly \cap (processed \cup tracked) = {}
        /\ \A e \in DOMAIN stmt_graph.edges : ~(e[1].bbl \in CalledOnly /\ e[2].bbl \in CalledOnly)

\* Bound 0, block 1 calls block 3, which writes the register block 4 then reads;
\* block 1 has been traced and _construct has returned
C6_Witness ==
    /\ _call_depth = <<0>>
    /\ pc = "done"
    /\ <<1, 3>> \in DOMAIN cfg.edges
    /\ cfg.edges[<<1, 3>>].jumpkind = "Ijk_Call"
    /\ <<3, 4>> \in DOMAIN cfg.edges
    /\ {3, 4} \subseteq CalledOnly
    /\ 1 \in tracked

(***************************************************************************)
(* A DDG object from its construction to the reads of its derived graphs.  *)
(* SpecDDG: DDG(cfg, start, call_depth) over every CFG of at most          *)
(* MaxDdgEdges of the edges below, with and without kept states, a start   *)
(* address, each block program and an unresolved indirect jump; afterwards *)
(* simplified_data_graph is read and function_dependency_graph is called.  *)
(***************************************************************************)
MaxDdgEdges == 2

DdgCandidateEdges ==
    {<<1, 2, "Ijk_Boring">>, <<2, 3, "Ijk_Boring">>, <<2, 4, "Ijk_Boring">>,
     <<1, 2, "Ijk_FakeRet">>, <<1, 4, "Ijk_FakeRet">>, <<1, 3, "Ijk_Call">>,
     <<3, 2, "Ijk_Ret">>}

DdgCfgs ==
    {CfgOf(E) : E \in {F \in SUBSET DdgCandidateEdges :
                        /\ Cardinality(F) <= MaxDdgEdges
                        /\ \A e, f \in F : (e[1] = f[1] /\ e[2] = f[2]) => e = f}}

\* An indirect jump out of block 1 with a symbolic ip, or out of block 2 to
\* address 0, where no block is
Unresolveds == {<< >>, [n \in {1} |-> << >>], [n \in {2} |-> <<0>>]}

DdgInit ==
    ConstructInitOn(DdgCfgs, BOOLEAN, {<< >>, <<2>>}, {"regs", "store", "exit"}, Unresolveds, {<< >>, <<-1>>, <<0>>})

Function(name, blocks) == [name |-> name, blocks |-> blocks]

\* cfg.function_manager.functions, as iteritems() yields them
FunctionManagers ==
    {<<Function("f", {1}), Function("g", {2})>>,
     <<Function("f", {1}), Function("g", {1, 2})>>,
     <<Function("g", {1, 2}), Function("f", {1})>>,
     <<Function("f", {1, 2}), Function("g", {3, 4})>>}

\* __init__ returned: the object exists
Constructed == pc = "done" /\ raised \in {"", "NetworkXError"}

\* lines 117-127: the property simplified_data_graph is read
ReadSimplified ==
    /\ Constructed
    /\ \E all_nodes \in Orders(TempNodes(data_graph)) :
          LET r == simplified_data_graph_get(Self, all_nodes)
          IN  /\ SetSelf(r.self)
              /\ raised' = r.raised
              /\ last_call' = [op |-> "simplified_data_graph", existed |-> simplified_data_graph # << >>]
    /\ UNCHANGED <<budget, trackVars, constructVars>>

\* lines 168-183: function_dependency_graph(func); the first call builds the graphs
\* from the functions the function manager lists
FunctionDependencyGraph ==
    /\ Constructed
    /\ \E func \in {"f", "g"} :
          /\ IF _function_data_dependencies = << >>
             THEN \E fs \in FunctionManagers :
                     /\ functions' = fs
                     /\ _function_data_dependencies' = <<_build_function_dependency_graphs(stmt_graph, fs)>>
             ELSE UNCHANGED functionVars
          /\ last_call' = [op |-> "function_dependency_graph", existed |-> _function_data_dependencies # << >>,
                           func |-> func,
                           value |-> function_dependency_graph(_function_data_dependencies'[1], func)]
    /\ UNCHANGED <<graphVars, raised, budget, trackVars, cfg, _keep_state, _start, program,
                   unresolved, _call_depth, reverse, pc, worklist, worklist_set,
                   live_defs_per_node, ddg_job, state_idx, processed, tracked, propagations,
                   seeded, last_scheduled, last_append>>

DdgNext == ConstructNext \/ ReadSimplified \/ FunctionDependencyGraph

SpecDDG == DdgInit /\ [][DdgNext]_vars

(***************************************************************************)
(* Claims about a DDG object (SpecDDG)                                     *)
(***************************************************************************)
GraphGrows(g, h) == g.nodes \subseteq h.nodes /\ DOMAIN g.edges \subseteq DOMAIN h.edges

LabelsKept(g, h) == \A e \in (DOMAIN g.edges) \cap (DOMAIN h.edges) : g.edges[e] = h.edges[e]

\* C11: no step of construction, no read of simplified_data_graph and no call of
\* function_dependency_graph removes a node or an edge of the statement graph or the
\* data graph or changes a label of the data graph; once the object is constructed,
\* the reads leave both graphs as they are, so the simplifier works on a copy.
C11_GraphsOnlyGrow ==
    [][/\ GraphGrows(stmt_graph, stmt_graph')
       /\ GraphGrows(data_graph, data_graph')
       /\ LabelsKept(data_graph, data_graph')
       /\ Constructed => (stmt_graph' = stmt_graph /\ data_graph' = data_graph)]_vars

\* The simplified graph was made without the temporary the data graph still has,
\* and the function graphs were built from a statement graph with an edge
C11_Witness ==
    /\ Constructed
    /\ simplified_data_graph # << >>
    /\ TempNodes(data_graph) # {}
    /\ TempNodes(simplified_data_graph[1]) = {}
    /\ DOMAIN data_graph.edges # {}
    /\ _function_data_dependencies # << >>
    /\ DOMAIN _function_data_dependencies[1] # {}

\* C12: once the function graphs are built, for every function the function manager
\* lists and every statement-graph edge with the block of its source or of its
\* destination among the function's blocks, the function's graph has the edge with
\* its labels (so an edge between two functions is in the graphs of both), whatever
\* blocks the functions list, a block listed by two functions included.
C12_ProjectionComplete ==
    _function_data_dependencies # << >> =>
        \A i \in 1..Len(functions) : \A e \in DOMAIN stmt_graph.edges :
            (e[1].bbl \in functions[i].blocks \/ e[2].bbl \in functions[i].blocks) =>
                /\ functions[i].name \in DOMAIN _function_data_dependencies[1]
                /\ e \in DOMAIN _function_data_dependencies[1][functions[i].name].edges
                /\ _function_data_dependencies[1][functions[i].name].edges[e] = stmt_graph.edges[e]

Loc1 == CodeLocation(1, 1)

Loc2 == CodeLocation(2, 1)

\* The run of the end-to-end scenario: blocks 1 and 2 in sequence, block 2 storing
\* and then leaving the CFG (its one final state jumps to no block)
TwoNodeStore ==
    /\ _keep_state
    /\ program = "store"
    /\ cfg.nodes = {1, 2}
    /\ DOMAIN cfg.edges = {<<1, 2>>}
    /\ cfg.edges[<<1, 2>>].jumpkind = "Ijk_Boring"
    /\ DOMAIN unresolved = {2}
    /\ _call_depth = << >>
    /\ pc = "done"

\* C13: after construction on the two-node sequence (block 1 writes register 0 from
\* a constant at loc1; block 2 reads it into temporary 1 and stores the temporary at
\* the concrete address 16 at loc2), the data graph has the edges
\* Constant -> R0@loc1, R0@loc1 -> tmp@loc2 and tmp@loc2 -> mem@loc2, the last one
\* labelled mem_data, and the statement graph has exactly the edge loc1 -> loc2.
C13_EndToEnd ==
    TwoNodeStore =>
        LET const == ProgramVariable(ConstVar, Loc1)
            r0 == ProgramVariable(RegVar(0, RegSize), Loc1)
            tmp == ProgramVariable(TmpVar(1), Loc2)
            mem == ProgramVariable(MemVar(16, RegSize), Loc2)
        IN  /\ raised = ""
            /\ {<<const, r0>>, <<r0, tmp>>, <<tmp, mem>>} \subseteq DOMAIN data_graph.edges
            /\ data_graph.edges[<<tmp, mem>>] = TypeLabel("mem_data")
            /\ DOMAIN stmt_graph.edges = {<<Loc1, Loc2>>}

C13_Witness == TwoNodeStore /\ raised = "" /\ tracked = {1, 2}

\* The loop is at a final state whose ip is symbolic or the address of no successor
AtUnresolvedState ==
    /\ pc = "states"
    /\ ~IsSkippedFakeRet(CurrentState, FinalStates(ddg_job.cfg_node))
    /\ ~IsTooDeep(ddg_job.call_depth)
    /\ (CurrentState.ip = << >> \/ CurrentState.ip[1] \notin Successors(ddg_job.cfg_node))

\* The tracker takes the actions of the block of the current job without raising
TrackerAccepts ==
    _track(Self, KeepData, NodeActions(ddg_job.cfg_node), live_defs_per_node[ddg_job.cfg_node]).raised = ""

C15_FailsBeforeWork ==
    (~_keep_state /\ pc # "new") =>
        /\ raised = "AngrDDGError"
        /\ pc = "done"
        /\ seeded = {}
        /\ worklist = << >>
        /\ worklist_set = {}
        /\ processed = {}
        /\ tracked = {}
        /\ stmt_graph = EmptyGraph
        /\ data_graph = EmptyGraph

\* __init__ refused a CFG that has a node to start from
C15_Witness == ~_keep_state /\ pc = "done" /\ InitialNodes # {} /\ raised = "AngrDDGError"

(***************************************************************************)
(* Claims about one call of _track (SpecTrack), continued                  *)
(***************************************************************************)
\* C16: whatever actions _track scans (a temporary read or an exit that depends on
\* a temporary never written in the trace, a register read with temporary
\* dependencies, a memory action depending on a register that has a reaching
\* definition), it raises nothing but AngrDDGError, the error of the fatal cases.
C16_TrackNeverRaises == trk.raised \in {"", "AngrDDGError"}

(***************************************************************************)
(* Claims about a DDG object (SpecDDG), continued                          *)
(***************************************************************************)
\* C17: once the worklist is seeded, the nodes seeded are the CFG nodes at the
\* address self._start holds: the start argument, or the project entry when the
\* argument is None.
C17_SeededFromStart ==
    (pc \in {"loop", "states", "done"} /\ raised # "AngrDDGError") =>
        seeded = {n \in cfg.nodes : n = StartAddress}

\* The final states of the current job's node other than the current one that are
\* not fake returns
RealOthers ==
    {i \in 1..Len(FinalStates(ddg_job.cfg_node)) :
        i # state_idx /\ FinalStates(ddg_job.cfg_node)[i].jumpkind # "Ijk_FakeRet"}

\* This step goes past the current final state without tracing it as a fake return
SkippedAsFakeRet ==
    /\ pc = "states"
    /\ IsSkippedFakeRet(CurrentState, FinalStates(ddg_job.cfg_node))
    /\ state_idx' = state_idx + 1

\* C20: a final state is passed over as a fake return only when its node has more
\* than one final state, its jumpkind is Ijk_FakeRet and another final state of the
\* node is not a fake return.
C20_FakeRetSkippedOnlyWithRealSuccessor ==
    [][SkippedAsFakeRet =>
          /\ Len(FinalStates(ddg_job.cfg_node)) > 1
          /\ CurrentState.jumpkind = "Ijk_FakeRet"
          /\ RealOthers # {}]_vars

(***************************************************************************)
(* Claims about _construct (SpecConstruct), continued                      *)
(***************************************************************************)
WorklistNodes(wl) == {wl[i].cfg_node : i \in 1..Len(wl)}

\* C18 as claimed: the job at the head of the worklist, the next one popped, has the
\* call depth of the latest job made for its node.
C18_LatestDepthHonored ==
    (pc = "loop" /\ worklist # << >>) =>
        worklist[1].call_depth = last_scheduled[worklist[1].cfg_node]

\* C18: the worklist is first in first out and holds a node once.  No node has two
\* jobs in it and worklist_set is the set of its nodes; a step either pops its head,
\* which becomes the current job, or appends at its tail; and a call of
\* _worklist_append for a pending node changes nothing, so that the pending job keeps
\* the call depth it was made with and the depth of the new job is dropped.
C18_FifoDedup ==
    /\ [](/\ \A i, j \in 1..Len(worklist) : worklist[i].cfg_node = worklist[j].cfg_node => i = j
          /\ raised = "" => worklist_set = WorklistNodes(worklist))
    /\ [][/\ \/ worklist # << >> /\ worklist' = Tail(worklist) /\ ddg_job' = worklist[1]
             \/ Len(worklist') >= Len(worklist) /\ SubSeq(worklist', 1, Len(worklist)) = worklist
          /\ (last_append' # last_append /\ last_append'[1].pending) =>
                (worklist' = worklist /\ worklist_set' = worklist_set)]_vars

\* A job for a pending node was dropped: its depth differs from the pending job's
C18_Witness ==
    /\ last_append # << >>
    /\ last_append[1].pending
    /\ \E i \in 1..Len(worklist) :
          /\ worklist[i].cfg_node = last_append[1].job.cfg_node
          /\ worklist[i].call_depth # last_append[1].job.call_depth

\* The call depths an admissible path is followed through
PathDepths == 0..(2 * Cardinality(cfg.nodes))

\* One edge of an admissible path from the node and depth of p: a call is taken
\* below the bound and adds one, a return is taken above depth 0 and takes one off,
\* any other edge keeps the depth
AdmissibleStep(p) ==
    {q \in cfg.nodes \X PathDepths :
        /\ <<p[1], q[1]>> \in DOMAIN cfg.edges
        /\ LET jumpkind == cfg.edges[<<p[1], q[1]>>].jumpkind
           IN  IF jumpkind = "Ijk_Call"
               THEN (_call_depth = << >> \/ p[2] < _call_depth[1]) /\ q[2] = p[2] + 1
               ELSE IF jumpkind = "Ijk_Ret"
               THEN p[2] > 0 /\ q[2] = p[2] - 1
               ELSE q[2] = p[2]}

RECURSIVE AdmissibleFrom(_)
AdmissibleFrom(S) ==
    LET T == S \cup UNION {AdmissibleStep(p) : p \in S}
    IN  IF T = S THEN S ELSE AdmissibleFrom(T)

\* The nodes on admissible paths from the node of job, entered at its depth
AdmissibleNodes(job) == {p[1] : p \in AdmissibleFrom({<<job.cfg_node, job.call_depth>>})}

\* C19: when _worklist_append(job) returns from a call for a node that was not
\* pending, every node on an admissible path from the job's node is in worklist_set,
\* a node that a rejected call or return edge also leads to included.
C19_ExpansionComplete ==
    (last_append # << >> /\ ~last_append[1].pending /\ last_append[1].job.call_depth \in PathDepths) =>
        AdmissibleNodes(last_append[1].job) \subseteq last_append[1].worklist_set

\* The current final state is given to _track
StateIsTracked ==
    /\ pc = "states"
    /\ ~IsSkippedFakeRet(CurrentState, FinalStates(ddg_job.cfg_node))
    /\ ~IsTooDeep(ddg_job.call_depth)

\* A final state after the current one will be given to _track
LaterStateTracked ==
    /\ ~IsTooDeep(ddg_job.call_depth)
    /\ \E i \in (state_idx + 1)..Len(FinalStates(ddg_job.cfg_node)) :
          ~IsSkippedFakeRet(FinalStates(ddg_job.cfg_node)[i], FinalStates(ddg_job.cfg_node))

\* C21 as claimed: the final states of one node are each tracked from the same
\* entering definitions, the step for one of them leaves the LiveDefs of the node
\* as they were for the later ones.
C21_StatesTrackedFromSameDefs ==
    [][(pc = "states" /\ pc' = "states" /\ LaterStateTracked) =>
          Locs(live_defs_per_node'[ddg_job.cfg_node]) = Locs(live_defs_per_node[ddg_job.cfg_node])]_vars

\* C21: when _track returns, the dictionary it was given has the variables and the
\* locations per variable it had at the call: the kills of the block's writes are in
\* the dictionary returned only.
C21_TrackKeepsEntering ==
    StateIsTracked =>
        LET node == ddg_job.cfg_node
            t == _track(Self, KeepData, NodeActions(node), live_defs_per_node[node])
        IN  /\ Locs(CallerDefs(live_defs_per_node[node], t)) = Locs(live_defs_per_node[node])
            /\ node % 2 = 1 => t.live_defs[RegVar(0, RegSize)].locs = {CodeLocation(node, 1)}

\* Block 3 is about to be tracked; it writes register 0, which has a definition
\* entering from another block
C21_Witness ==
    /\ StateIsTracked
    /\ ddg_job.cfg_node = 3
    /\ RegVar(0, RegSize) \in DOMAIN live_defs_per_node[3]
    /\ live_defs_per_node[3][RegVar(0, RegSize)].locs = {CodeLocation(1, 1)}

(***************************************************************************)
(* Claims about one call of _track (SpecTrack), continued                  *)
(***************************************************************************)
\* The memory ProgramVariables of the action a
MemoryVariablesOf(a) ==
    {ProgramVariable(MemVar(AddrList(a)[i], a.size), ActionLocation(a)) : i \in 1..Len(AddrList(a))}

\* The ProgramVariables of the current definitions of the registers reg_deps and of
\* the temporaries tmp_deps, before the step
DefinitionsOf(reg_deps, tmp_deps) ==
    UNION {{ProgramVariable(RegVar(r, RegSize), loc) : loc \in trk.live_defs[RegVar(r, RegSize)].locs} :
              r \in {x \in reg_deps : RegVar(x, RegSize) \in DOMAIN trk.live_defs}}
    \cup {trk.temp_variables[tmp] : tmp \in tmp_deps \cap DOMAIN trk.temp_variables}

\* After the step the data graph has an edge from each of sources to each of
\* targets, labelled with the type
LinkedAs(sources, targets, type) ==
    \A v \in sources, pv \in targets :
        /\ <<v, pv>> \in DOMAIN data_graph'.edges
        /\ data_graph'.edges[<<v, pv>>] = TypeLabel(type)

\* C22: scanning a memory read or write links, in the data graph, the current
\* definition of every register and temporary its address depends on to its memory
\* ProgramVariable with the label mem_addr, and those its data depends on with the
\* label mem_data.
C22_MemoryDependenciesLinked ==
    [][(trace' # trace /\ Scanned.type = "mem") =>
          /\ LinkedAs(DefinitionsOf(Scanned.addr_reg_deps, Scanned.addr_tmp_deps),
                      MemoryVariablesOf(Scanned), "mem_addr")
          /\ LinkedAs(DefinitionsOf(Scanned.data_reg_deps, Scanned.data_tmp_deps),
                      MemoryVariablesOf(Scanned), "mem_data")]_vars

IsTmpWrite(a, tmp) == a.type = "tmp" /\ a.action = "write" /\ a.tmp = tmp

\* a reads the temporary: a temporary read, or an exit that depends on it
IsTmpUse(a, tmp) ==
    \/ a.type = "tmp" /\ a.action = "read" /\ a.tmp = tmp
    \/ a.type = "exit" /\ tmp \in a.tmp_deps

\* The statement edges recorded by the uses of the temporary in tr after its most
\* recent write
CurrentTmpEdges(tr, tmp) ==
    LET writes == {i \in 1..Len(tr) : IsTmpWrite(tr[i], tmp)}
    IN  IF writes = {} THEN {}
        ELSE {<<ActionLocation(tr[Max(writes)]), ActionLocation(tr[i])>> :
                 i \in {j \in 1..Len(tr) : j > Max(writes) /\ IsTmpUse(tr[j], tmp)}}

\* The definitions the register variable of the read at position i of tr has there
ReachingAt(tr, i) ==
    LET writes == {j \in WritesOf(tr, VariableOf(tr[i])) : j < i}
    IN  IF writes # {} THEN {ActionLocation(tr[Max(writes)])}
        ELSE IF VariableOf(tr[i]) \in DOMAIN entering_defs THEN entering_defs[VariableOf(tr[i])].locs
        ELSE {}

\* The statement edges recorded by the reads of the register offset in tr after the
\* most recent write to it
CurrentRegEdges(tr, offset) ==
    LET writes == {i \in 1..Len(tr) : IsRegWrite(tr[i]) /\ tr[i].offset = offset}
        reads == {i \in 1..Len(tr) : IsRegRead(tr[i]) /\ tr[i].offset = offset
                                       /\ (writes # {} => i > Max(writes))}
    IN  UNION {{<<loc, ActionLocation(tr[i])>> : loc \in ReachingAt(tr, i)} : i \in reads}

CurrentEdges(tr, reg_deps, tmp_deps) ==
    UNION {CurrentRegEdges(tr, r) : r \in reg_deps} \cup UNION {CurrentTmpEdges(tr, t) : t \in tmp_deps}

SubtypeOf(labels) == IF "subtype" \in DOMAIN labels THEN labels["subtype"] ELSE << >>

Elements(s) == {s[i] : i \in 1..Len(s)}

\* The labels after are the labels before with the subtypes added at the end of the
\* tuple subtype, and nothing more
Annotated(before, after, subtypes) ==
    /\ \A k \in (DOMAIN before) \ {"subtype"} : k \in DOMAIN after /\ after[k] = before[k]
    /\ (DOMAIN after) \ {"subtype"} \subseteq DOMAIN before
    /\ Len(SubtypeOf(after)) >= Len(SubtypeOf(before))
    /\ SubSeq(SubtypeOf(after), 1, Len(SubtypeOf(before))) = SubtypeOf(before)
    /\ Elements(SubSeq(SubtypeOf(after), Len(SubtypeOf(before)) + 1, Len(SubtypeOf(after)))) = subtypes

\* C23: scanning a memory action adds mem_addr to the tuple subtype of the statement
\* edges recorded by the reads, since its latest write in the trace, of every
\* register and temporary the address depends on, and mem_data for those the data
\* depends on; every other edge keeps its labels, an annotated edge keeps its other
\* labels, and a memory write adds no node and no edge.
C23_AnnotatesCurrentEdges ==
    [][(trace' # trace /\ Scanned.type = "mem") =>
          /\ \A e \in DOMAIN stmt_graph.edges :
                Annotated(stmt_graph.edges[e], stmt_graph'.edges[e],
                          {s \in {"mem_addr"} : e \in CurrentEdges(trace, Scanned.addr_reg_deps, Scanned.addr_tmp_deps)}
                          \cup {s \in {"mem_data"} : e \in CurrentEdges(trace, Scanned.data_reg_deps, Scanned.data_tmp_deps)})
          /\ Scanned.action = "write" =>
                (stmt_graph'.nodes = stmt_graph.nodes /\ DOMAIN stmt_graph'.edges = DOMAIN stmt_graph.edges)]_vars

(***************************************************************************)
(* Claims about _construct (SpecConstruct), continued                      *)
(***************************************************************************)
\* C24: in every state of _construct, worklist_set is the set of the nodes that have
\* a job in the worklist and no node has two jobs in it, so that worklist_set.remove
\* of the popped node never raises KeyError.
C24_WorklistConsistent ==
    /\ worklist_set = {worklist[i].cfg_node : i \in 1..Len(worklist)}
    /\ Cardinality(worklist_set) = Len(worklist)
    /\ raised # "KeyError"

\* A job was popped and jobs are pending, after a call for a pending node was dropped
C24_Witness ==
    /\ pc = "states"
    /\ Len(worklist) >= 2
    /\ processed # {}
    /\ last_append # << >>
    /\ last_append[1].pending

\* The step merges the definitions of the current final state into a successor
MergesInto(s) ==
    /\ StateIsTracked
    /\ CorrespondingSuccessors(ddg_job.cfg_node, CurrentState) # << >>
    /\ CorrespondingSuccessors(ddg_job.cfg_node, CurrentState)[1] = s
    /\ state_idx' = state_idx + 1

\* C25: the merge into the successor s leaves the LiveDefs of every other node with
\* the location set per variable it had, those of the node just processed included
\* when it is not s.
C25_MergeChangesSuccessorOnly ==
    [][\A s \in cfg.nodes : MergesInto(s) =>
          \A n \in (DOMAIN live_defs_per_node) \ {s} :
              Locs(live_defs_per_node'[n]) = Locs(live_defs_per_node[n])]_vars

\* The call depths of the jobs in the worklist and of the job being processed
JobDepths ==
    {worklist[i].call_depth : i \in 1..Len(worklist)}
    \cup (IF pc = "states" THEN {ddg_job.call_depth} ELSE {})

\* C26: with a non-negative bound every job, pending or being processed, has a call
\* depth from 0 to the bound, and no final state is skipped for being too deep.
C26_DepthsWithinBound ==
    (_call_depth # << >> /\ _call_depth[1] >= 0) =>
        /\ \A d \in JobDepths : 0 <= d /\ d <= _call_depth[1]
        /\ ~(pc = "states" /\ IsTooDeep(ddg_job.call_depth))

\* With the bound 1, a job entered through a call is processed at depth 1 while a
\* job at depth 0 is pending
C26_Witness ==
    /\ _call_depth = <<1>>
    /\ pc = "states"
    /\ ddg_job.call_depth = 1
    /\ \E i \in 1..Len(worklist) : worklist[i].call_depth = 0
====
